---- MODULE Spec2Model ----
(***************************************************************************)
(* Form binding of Rocket: the leaf binder (the blanket FromForm impl for  *)
(* FromFormField types), the derived composite binder (derive(FromForm))   *)
(* Request::query_value, the temporary file sink TempFile, and the         *)
(* request-local cache and cached Content-Type of Request.                 *)
(*                                                                         *)
(* Texts are tuples of one-character strings, so that the conversions      *)
(* (uncased comparison, integer parsing) are computed and not assumed.     *)
(* Option<T> is a tuple: None is <<>>, Some(x) is <<x>>.                   *)
(***************************************************************************)
EXTENDS Integers, Sequences, FiniteSets, TLC

VARIABLES
    ty,        \* the leaf type T of the leaf context
    ctxt,      \* FromFieldContext<T>
    log,       \* history: the push calls made on ctxt since init, in order
    phase,     \* "Idle" | "Accumulating" | "Finalized"
    result,    \* Option<Result<T>>: what finalize returned
    decl,      \* the declared fields of the derived struct
    form,      \* FromFormGeneratedContext
    flog,      \* history: the events pushed to form since init, in order
    fphase,    \* "Idle" | "Accumulating" | "Finalized"
    fresult,   \* Option<Result<Self>>: what the derived finalize returned
    base,      \* the name under which the derived binder sits (empty at top level)
    query,     \* the request's query fields, in query order
    qname,     \* the name passed to query_value
    qpc,       \* position of query_value: "find" | "push" | "finalize" | "done"
    qidx,      \* for_each position in query_fields()
    qctxt,     \* Option<FromFieldContext<T>>: the context query_value created
    qcalls,    \* history: the protocol calls query_value made, in order
    qresult,   \* Option<Option<Result<T>>>: what query_value returned
    sink,      \* Option<TempFile>: the sink, None before the bind and after drop
    fs,        \* the file system: what each path holds
    tlog,      \* history: the calls made on the sink and what they returned
    tphase,    \* "Idle" | "Unbound" | "Live" | "Failed" | "Dropped"
    lcache,    \* the request-local cache slot of one type: Option<T>
    lcalls,    \* the local_cache / local_cache_async calls made, with their position
    headers,   \* the header map: the values of each header name, in order
    ctstate,   \* state.content_type: Storage<Option<ContentType>>, None when unset
    hlog       \* history: how many header calls were made, the last one, and what each content_type call returned

vars == <<ty, ctxt, log, phase, result, decl, form, flog, fphase, fresult, base,
          query, qname, qpc, qidx, qctxt, qcalls, qresult, sink, fs, tlog, tphase,
          lcache, lcalls, headers, ctstate, hlog>>

leafVars == <<ty, ctxt, log, phase, result>>
formVars == <<decl, form, flog, fphase, fresult, base>>
queryVars == <<query, qname, qpc, qidx, qctxt, qcalls, qresult>>
tempVars == <<sink, fs, tlog, tphase>>
reqVars == <<lcache, lcalls, headers, ctstate, hlog>>

----------------------------------------------------------------------------
(* Bounds *)

\* The largest number of push calls made on one context.
MaxPushes == 3

\* The size limit of a streamed string, in bytes.
StringLimit == 2

\* The largest number of events pushed to one derived context.
MaxEvents == 3

\* The longest query.
MaxQuery == 3

----------------------------------------------------------------------------
(* Option, Result *)

None == <<>>

Some(x) == <<x>>

IsSome(o) == o # <<>>

Unwrap(o) == o[1]

Ok(v) == [ok |-> TRUE, val |-> <<v>>, errs |-> <<>>]

Err(es) == [ok |-> FALSE, val |-> <<>>, errs |-> es]

----------------------------------------------------------------------------
(* Options *)

Strict == [strict |-> TRUE]

Lenient == [strict |-> FALSE]

OptionsSet == {Strict, Lenient}

----------------------------------------------------------------------------
(* Texts *)

UpperCase == <<"A","B","C","D","E","F","G","H","I","J","K","L","M",
               "N","O","P","Q","R","S","T","U","V","W","X","Y","Z">>

LowerCase == <<"a","b","c","d","e","f","g","h","i","j","k","l","m",
               "n","o","p","q","r","s","t","u","v","w","x","y","z">>

ToAsciiLowercase(c) ==
    IF \E i \in 1..26 : UpperCase[i] = c
    THEN LowerCase[CHOOSE i \in 1..26 : UpperCase[i] = c]
    ELSE c

\* UncasedStr: equality that ignores ASCII case compares the lowercased texts.
AsUncased(s) == [i \in 1..Len(s) |-> ToAsciiLowercase(s[i])]

DigitChars == <<"0","1","2","3","4","5","6","7","8","9">>

IsDigit(c) == \E i \in 1..10 : DigitChars[i] = c

DigitVal(c) == (CHOOSE i \in 1..10 : DigitChars[i] = c) - 1

U16Max == 65535

RECURSIVE DigitsValue(_)
\* The number the digits denote, or -1 when it does not fit in a u16.
DigitsValue(s) ==
    IF Len(s) = 0 THEN 0
    ELSE LET hi == DigitsValue(SubSeq(s, 1, Len(s) - 1))
             n  == hi * 10 + DigitVal(s[Len(s)])
         IN  IF hi < 0 \/ n > U16Max THEN -1 ELSE n

\* <u16 as FromStr>::from_str: an optional "+", then one or more digits, in
\* range. None is a ParseIntError.
ParseU16(s) ==
    LET digits == IF Len(s) > 0 /\ s[1] = "+" THEN Tail(s) ELSE s
    IN  IF Len(digits) = 0 \/ \E i \in 1..Len(digits) : ~IsDigit(digits[i])
        THEN None
        ELSE IF DigitsValue(digits) < 0 THEN None
        ELSE Some(DigitsValue(digits))

T_on == <<"o","n">>
T_yes == <<"y","e","s">>
T_true == <<"t","r","u","e">>
T_off == <<"o","f","f">>
T_no == <<"n","o">>
T_false == <<"f","a","l","s","e">>
T_YES == <<"Y","E","S">>
T_nope == <<"n","o","p","e">>
T_3 == <<"3">>
T_three == <<"t","h","r","e","e">>
T_Max == <<"M","a","x">>

----------------------------------------------------------------------------
(* Names *)

\* A name is its sequence of keys; a NameView is the name and the position of
\* the current key.
NameView(keys) == [keys |-> keys, cur |-> 1]

\* The view of the name prefix.key that a binder sitting under prefix receives:
\* its callers have shifted the keys of prefix away.
NameViewUnder(prefix, key) == [keys |-> prefix \o <<key>>, cur |-> Len(prefix) + 1]

\* NameView::key_lossy: the current key, empty once the view is exhausted.
KeyLossy(nv) == IF nv.cur <= Len(nv.keys) THEN nv.keys[nv.cur] ELSE ""

\* NameView::shift: the view with the current key consumed.
ShiftName(nv) ==
    [nv EXCEPT !.cur = IF nv.cur <= Len(nv.keys) THEN nv.cur + 1 ELSE nv.cur]

\* NameView::parent: the name before the current key, None at the first key.
Parent(nv) == IF nv.cur = 1 THEN None ELSE Some(SubSeq(nv.keys, 1, nv.cur - 1))

\* NameView::as_name: the name up to and including the current key.
AsName(nv) ==
    SubSeq(nv.keys, 1, IF nv.cur <= Len(nv.keys) THEN nv.cur ELSE Len(nv.keys))

\* NameView::source: the whole name.
Source(nv) == nv.keys

----------------------------------------------------------------------------
(* Errors *)

Missing == "Missing"
Duplicate == "Duplicate"
Unknown == "Unknown"
Unexpected == "Unexpected"
Conversion == "Conversion"
Validation == "Validation"
Truncated == "Truncated"
IO == "IO"

\* Error::from(kind)
ErrorFrom(kind) == [kind |-> kind, name |-> None, value |-> None, entity |-> None]

\* Errors::from(kind)
ErrorsFrom(kind) == <<ErrorFrom(kind)>>

\* Error::with_name / set_name: sets the name only when none is set.
WithName(e, name) == IF e.name = None THEN [e EXCEPT !.name = Some(name)] ELSE e

\* Error::with_value / set_value: sets the value only when none is set.
WithValue(e, value) == IF e.value = None THEN [e EXCEPT !.value = Some(value)] ELSE e

\* Error::with_entity
WithEntity(e, entity) == [e EXCEPT !.entity = Some(entity)]

\* Errors::set_name / with_name
SetName(es, name) == [i \in 1..Len(es) |-> WithName(es[i], name)]

\* Errors::set_value / with_value
SetValue(es, value) == [i \in 1..Len(es) |-> WithValue(es[i], value)]

Kinds(es) == [i \in 1..Len(es) |-> es[i].kind]

----------------------------------------------------------------------------
(* Field events *)

\* ValueField { name, value }
ValueField(nv, value) == [shape |-> "value", name |-> nv, value |-> value]

\* DataField { name, data, .. }: data is what the stream delivers, bytes or a
\* fault of the read ("none" | "io" | "forward").
DataField(nv, bytes, fault) ==
    [shape |-> "data", name |-> nv, bytes |-> bytes, fault |-> fault]

\* ValueField::shift / DataField::shift
Shift(f) == [f EXCEPT !.name = ShiftName(f.name)]

\* ValueField::unexpected / DataField::unexpected
UnexpectedField(f) ==
    IF f.shape = "value"
    THEN WithEntity(WithValue(WithName(ErrorFrom(Unexpected), Source(f.name)),
                              f.value), "ValueField")
    ELSE WithEntity(WithName(ErrorFrom(Unexpected), Source(f.name)), "DataField")

----------------------------------------------------------------------------
(* Leaf binders: FromFormField *)

\* bool, u16 (impl_with_parse), Capped<&str>, and a type that implements
\* from_data alone and so has the trait's from_value.
LeafTypes == {"bool", "u16", "capstr", "dataonly"}

\* <Capped<&str> as FromData>::from_data: reads the stream up to the string
\* limit; a read fault is a Failure, a body that is not a string a Forward.
CappedStrFromData(f) ==
    CASE f.fault = "io" -> Err(ErrorsFrom(IO))
      [] f.fault = "forward" ->
            Err(<<WithEntity(ErrorFrom(Unexpected), "DataField")>>)
      [] OTHER ->
            Ok([value |-> SubSeq(f.bytes, 1,
                            IF Len(f.bytes) <= StringLimit THEN Len(f.bytes)
                            ELSE StringLimit),
                complete |-> Len(f.bytes) <= StringLimit])

\* from_value of bool that compares the text as written.
BoolFromValue_CaseSensitive(field) ==
    LET v == field.value
    IN  IF v = T_on \/ v = T_yes \/ v = T_true THEN Ok(TRUE)
        ELSE IF v = T_off \/ v = T_no \/ v = T_false THEN Ok(FALSE)
        ELSE Err(ErrorsFrom(Conversion))

\* <bool as FromFormField>::from_value
BoolFromValue(field) ==
    LET v == AsUncased(field.value)
    IN  IF v = T_on \/ v = T_yes \/ v = T_true THEN Ok(TRUE)
        ELSE IF v = T_off \/ v = T_no \/ v = T_false THEN Ok(FALSE)
        ELSE Err(ErrorsFrom(Conversion))

\* impl_with_parse!(u16): Ok(field.value.parse()?)
U16FromValue(field) ==
    IF IsSome(ParseU16(field.value))
    THEN Ok(Unwrap(ParseU16(field.value)))
    ELSE Err(ErrorsFrom(Conversion))

\* FromFormField::from_value of T
FromValue(T, field) ==
    CASE T = "bool" -> BoolFromValue(field)
      [] T = "u16" -> U16FromValue(field)
      [] T = "capstr" -> Ok([value |-> field.value, complete |-> TRUE])
      [] OTHER -> Err(<<UnexpectedField(field)>>)

\* FromFormField::from_data of T; the implementation of the data-only type
\* may fail with an empty set of errors.
FromData(T, field) ==
    CASE T = "capstr" -> CappedStrFromData(field)
      [] T = "dataonly" ->
            IF field.fault = "empty" THEN Err(<<>>) ELSE CappedStrFromData(field)
      [] OTHER -> Err(<<UnexpectedField(field)>>)

\* FromFormField::default of T
FieldDefault(T) == IF T = "bool" THEN Some(FALSE) ELSE None

\* What the conversion of T makes of an event.
Outcome(T, f) == IF f.shape = "value" THEN FromValue(T, f) ELSE FromData(T, f)

----------------------------------------------------------------------------
(* The leaf context: FromFieldContext and the blanket FromForm impl *)

\* <T as FromForm>::init
LeafInit(opts) ==
    [opts |-> opts, field_name |-> None, field_value |-> None,
     value |-> None, pushes |-> 0]

\* can_push that counts only the attempts it lets through.
CanPush_CountStored(c) ==
    [ctxt |-> IF c.value = None THEN [c EXCEPT !.pushes = @ + 1] ELSE c,
     can |-> c.value = None]

\* can_push that lets every attempt through: the last outcome wins.
CanPush_Always(c) == [ctxt |-> [c EXCEPT !.pushes = @ + 1], can |-> TRUE]

\* FromFieldContext::can_push: counts the attempt, then tells whether no
\* outcome is stored yet.
CanPush(c) == [ctxt |-> [c EXCEPT !.pushes = @ + 1], can |-> c.value = None]

\* The closure is_unexpected of FromFieldContext::push
IsUnexpected(es) == Len(es) > 0 /\ es[Len(es)].kind = Unexpected

\* push that stores an Unexpected outcome under lenient options too.
Push_StoreUnexpected(c, name, res) ==
    [c EXCEPT !.field_name = Some(name), !.value = Some(res)]

\* push that swallows an Unexpected outcome under strict options too.
Push_SwallowAlways(c, name, res) ==
    LET c1 == [c EXCEPT !.field_name = Some(name)]
    IN  IF ~res.ok /\ IsUnexpected(res.errs)
        THEN c1
        ELSE [c1 EXCEPT !.value = Some(res)]

\* FromFieldContext::push
Push(c, name, res) ==
    LET c1 == [c EXCEPT !.field_name = Some(name)]
    IN  IF ~res.ok /\ ~c.opts.strict /\ IsUnexpected(res.errs)
        THEN c1
        ELSE [c1 EXCEPT !.value = Some(res)]

\* push_value that records the raw value of every attempt, let through or not.
PushValue_RecordsEveryValue(T, c, field) ==
    LET r == CanPush(c)
        c1 == [r.ctxt EXCEPT !.field_value = Some(field.value)]
    IN  IF r.can THEN Push(c1, field.name, FromValue(T, field)) ELSE c1

\* <T as FromForm>::push_value
PushValue(T, c, field) ==
    LET r == CanPush(c)
    IN  IF r.can
        THEN Push([r.ctxt EXCEPT !.field_value = Some(field.value)],
                  field.name, FromValue(T, field))
        ELSE r.ctxt

\* <T as FromForm>::push_data
PushData(T, c, field) ==
    LET r == CanPush(c)
    IN  IF r.can THEN Push(r.ctxt, field.name, FromData(T, field)) ELSE r.ctxt

\* push_value or push_data, by the shape of the event.
PushField(T, c, f) ==
    IF f.shape = "value" THEN PushValue(T, c, f) ELSE PushData(T, c, f)

\* A finalize match without the Duplicate arm: a stored value is returned.
FinalizeMatch_NoDuplicate(T, c) ==
    IF c.value # None THEN Unwrap(c.value)
    ELSE IF FieldDefault(T) # None THEN Ok(Unwrap(FieldDefault(T)))
    ELSE Err(ErrorsFrom(Missing))

\* A finalize match that falls back to the default under lenient options only.
FinalizeMatch_StrictNoDefault(T, c) ==
    IF c.value # None /\ Unwrap(c.value).ok /\ (~c.opts.strict \/ c.pushes <= 1)
        THEN Unwrap(c.value)
    ELSE IF c.value # None /\ ~Unwrap(c.value).ok
        THEN Err(Unwrap(c.value).errs)
    ELSE IF c.value # None
        THEN Err(ErrorsFrom(Duplicate))
    ELSE IF FieldDefault(T) # None /\ ~c.opts.strict
        THEN Ok(Unwrap(FieldDefault(T)))
    ELSE Err(ErrorsFrom(Missing))

\* The match of <T as FromForm>::finalize: the value returned early, or the
\* errors that go on to be annotated.
FinalizeMatch(T, c) ==
    IF c.value # None /\ Unwrap(c.value).ok /\ (~c.opts.strict \/ c.pushes <= 1)
        THEN Unwrap(c.value)
    ELSE IF c.value # None /\ ~Unwrap(c.value).ok
        THEN Err(Unwrap(c.value).errs)
    ELSE IF c.value # None
        THEN Err(ErrorsFrom(Duplicate))
    ELSE IF FieldDefault(T) # None
        THEN Ok(Unwrap(FieldDefault(T)))
    ELSE Err(ErrorsFrom(Missing))

\* <T as FromForm>::finalize
Finalize(T, c) ==
    LET m  == FinalizeMatch(T, c)
        e1 == IF c.field_name # None
              THEN SetName(m.errs, AsName(Unwrap(c.field_name)))
              ELSE m.errs
        e2 == IF c.field_value # None
              THEN SetValue(e1, Unwrap(c.field_value))
              ELSE e1
    IN  IF m.ok THEN m ELSE Err(e2)

----------------------------------------------------------------------------
(* The derived composite binder: derive(FromForm) *)

\* A declared field: its name, its type, its field-level validators (those
\* that read the field alone) and the struct-level validators it declares
\* (those that read self).
Field(name, T, local, nonlocal) ==
    [name |-> name, ty |-> T, local |-> local, nonlocal |-> nonlocal]

\* struct Person { name: Capped<&str>, age: u16 }
Person == <<Field("name", "capstr", <<>>, <<>>), Field("age", "u16", <<>>, <<>>)>>

\* struct Signup {
\*     #[field(validate = len(2..))]
\*     #[field(validate = eq(self.ok, true))] name: Capped<&str>,
\*     #[field(validate = eq(self.ok, true))] age: u16,
\*     #[field(validate = whole(&self.name))] ok: bool }
\* where whole is a function of the application that rejects a truncated
\* text with Err(Errors::new()).
Signup ==
    <<Field("name", "capstr", <<"len2">>, <<"consent">>),
      Field("age", "u16", <<>>, <<"consent">>),
      Field("ok", "bool", <<>>, <<"whole">>)>>

\* struct Upload { file: D }, D a type that implements from_data only
Upload == <<Field("file", "dataonly", <<>>, <<>>)>>

\* struct Household { head: Person }: a field that is itself a composite
\* with two required fields. No event of the model names head, so its
\* context is never created.
Household == <<Field("head", "person", <<>>, <<>>)>>

Shapes == {Person, Signup, Upload, Household}

\* A field-level validator applied to the bound value of its field.
ValidateLocal(v, value) ==
    IF v = "len2" /\ Len(value.value) < 2 THEN Err(ErrorsFrom(Validation))
    ELSE Ok(TRUE)

\* A struct-level validator applied to the constructed struct.
ValidateStruct(v, d, o) ==
    CASE v = "consent" /\ ~(\E i \in 1..Len(d) : d[i].name = "ok" /\ o[i] = TRUE)
            -> Err(ErrorsFrom(Validation))
      [] v = "whole" /\ (\E i \in 1..Len(d) : d[i].name = "name" /\ ~o[i].complete)
            -> Err(<<>>)
      [] OTHER -> Ok(TRUE)

\* <T as FromForm>::default
FormDefault(T) == FieldDefault(T)

\* The generated init
FormInit(opts, d) ==
    [opts |-> opts, errors |-> <<>>, parent |-> None,
     children |-> [i \in 1..Len(d) |-> None]]

\* A matcher that sends every event naming a declared field to the first one.
Matcher_First(d, key) ==
    IF \E i \in 1..Len(d) : d[i].name = key THEN 1 ELSE 0

\* The field a key names, 0 when no declared field has that name.
Matcher(d, key) ==
    IF \E i \in 1..Len(d) : d[i].name = key
    THEN CHOOSE i \in 1..Len(d) : d[i].name = key
    ELSE 0

\* A field context made anew by init for every event.
FieldContext_Fresh(c, i) == LeafInit(c.opts)

\* field_context of fields_map: get_or_insert_with(init(opts))
FieldContext(c, i) ==
    IF c.children[i] = None THEN LeafInit(c.opts) ELSE Unwrap(c.children[i])

\* fields_map without the _method arm.
FieldsMap_NoMethod(d, c, f) ==
    LET c1  == [c EXCEPT !.parent = Parent(f.name)]
        i   == Matcher(d, KeyLossy(f.name))
    IN  IF i # 0
        THEN [c1 EXCEPT !.children[i] = Some(PushField(d[i].ty, FieldContext(c, i), Shift(f)))]
        ELSE IF ~c.opts.strict THEN c1
        ELSE [c1 EXCEPT !.errors = Append(@, UnexpectedField(f))]

\* fields_map that records an unmatched event whatever the options are.
FieldsMap_AlwaysStrict(d, c, f) ==
    LET c1  == [c EXCEPT !.parent = Parent(f.name)]
        i   == Matcher(d, KeyLossy(f.name))
    IN  IF i # 0
        THEN [c1 EXCEPT !.children[i] = Some(PushField(d[i].ty, FieldContext(c, i), Shift(f)))]
        ELSE IF KeyLossy(f.name) = "_method" THEN c1
        ELSE [c1 EXCEPT !.errors = Append(@, UnexpectedField(f))]

\* fields_map that records no unmatched event.
FieldsMap_NeverStrict(d, c, f) ==
    LET c1  == [c EXCEPT !.parent = Parent(f.name)]
        i   == Matcher(d, KeyLossy(f.name))
    IN  IF i # 0
        THEN [c1 EXCEPT !.children[i] = Some(PushField(d[i].ty, FieldContext(c, i), Shift(f)))]
        ELSE c1

\* fields_map that records an error of kind Unknown for an unmatched event.
FieldsMap_PushUnknown(d, c, f) ==
    LET c1  == [c EXCEPT !.parent = Parent(f.name)]
        i   == Matcher(d, KeyLossy(f.name))
    IN  IF i # 0
        THEN [c1 EXCEPT !.children[i] = Some(PushField(d[i].ty, FieldContext(c, i), Shift(f)))]
        ELSE IF KeyLossy(f.name) = "_method" \/ ~c.opts.strict THEN c1
        ELSE [c1 EXCEPT !.errors = Append(@, [UnexpectedField(f) EXCEPT !.kind = Unknown])]

\* fields_map that forwards a matched event to every declared field.
FieldsMap_Broadcast(d, c, f) ==
    LET c1  == [c EXCEPT !.parent = Parent(f.name)]
        i   == Matcher(d, KeyLossy(f.name))
    IN  IF i # 0
        THEN [c1 EXCEPT !.children =
                [j \in 1..Len(d) |->
                    Some(PushField(d[j].ty, FieldContext(c, j), Shift(f)))]]
        ELSE IF KeyLossy(f.name) = "_method" \/ ~c.opts.strict THEN c1
        ELSE [c1 EXCEPT !.errors = Append(@, UnexpectedField(f))]

\* fields_map: the body of the generated push_value and push_data, which
\* differ in the child's push alone (push_value for a value field, push_data
\* for a data field).
FieldsMap(d, c, f) ==
    LET c1  == [c EXCEPT !.parent = Parent(f.name)]
        i   == Matcher(d, KeyLossy(f.name))
    IN  IF i # 0
        THEN [c1 EXCEPT !.children[i] = Some(PushField(d[i].ty, FieldContext(c, i), Shift(f)))]
        ELSE IF KeyLossy(f.name) = "_method" \/ ~c.opts.strict THEN c1
        ELSE [c1 EXCEPT !.errors = Append(@, UnexpectedField(f))]

\* The generated push_value
FormPushValue(d, c, f) == FieldsMap(d, c, f)

\* The generated push_data
FormPushData(d, c, f) == FieldsMap(d, c, f)

\* push_value or push_data, by the shape of the event.
FormPush(d, c, f) ==
    IF f.shape = "value" THEN FormPushValue(d, c, f) ELSE FormPushData(d, c, f)

\* Field::name_view: the name of the field under the context's parent.
FieldNameView(c, name) ==
    (IF c.parent = None THEN <<>> ELSE Unwrap(c.parent)) \o <<name>>

RECURSIVE RunLocal(_, _, _)
\* The errors of the field-level validators vs[k..] on a bound value.
RunLocal(vs, k, value) ==
    IF k > Len(vs) THEN <<>>
    ELSE ValidateLocal(vs[k], value).errs \o RunLocal(vs, k + 1, value)

\* A stand-in for the value of a field that did not bind.
Blank(T) ==
    CASE T = "bool" -> FALSE
      [] T = "u16" -> 0
      [] OTHER -> [value |-> <<>>, complete |-> TRUE]

\* The per-field expression with the field's validators run on a failed bind
\* too, against a stand-in value.
FinalizeField_AlwaysValidate(d, c, i) ==
    LET bound == IF c.children[i] # None
                 THEN Finalize(d[i].ty, Unwrap(c.children[i]))
                 ELSE IF FormDefault(d[i].ty) # None
                      THEN Ok(Unwrap(FormDefault(d[i].ty)))
                      ELSE Err(ErrorsFrom(Missing))
        es    == RunLocal(d[i].local, 1,
                          IF bound.ok THEN Unwrap(bound.val) ELSE Blank(d[i].ty))
        valid == IF es # <<>> THEN Err(bound.errs \o es) ELSE bound
        named == IF valid.ok THEN valid
                 ELSE Err(SetName(valid.errs, FieldNameView(c, d[i].name)))
    IN  IF ~named.ok /\ named.errs = <<>> THEN Err(ErrorsFrom(Unknown)) ELSE named

\* The per-field expression that makes and finalizes a context for a field
\* that has none, as the line commented out in the generator would.
FinalizeField_InitsAbsent(d, c, i) ==
    LET bound == IF c.children[i] # None
                 THEN Finalize(d[i].ty, Unwrap(c.children[i]))
                 ELSE IF d[i].ty = "person"
                      THEN Err(<<WithName(ErrorFrom(Missing), <<"name">>),
                                 WithName(ErrorFrom(Missing), <<"age">>)>>)
                      ELSE Finalize(d[i].ty, LeafInit(c.opts))
        es    == IF bound.ok THEN RunLocal(d[i].local, 1, Unwrap(bound.val)) ELSE <<>>
        valid == IF bound.ok /\ es # <<>> THEN Err(es) ELSE bound
        named == IF valid.ok THEN valid
                 ELSE Err(SetName(valid.errs, FieldNameView(c, d[i].name)))
    IN  IF ~named.ok /\ named.errs = <<>> THEN Err(ErrorsFrom(Unknown)) ELSE named

\* The per-field expression of the generated finalize.
FinalizeField(d, c, i) ==
    LET bound == IF c.children[i] # None
                 THEN Finalize(d[i].ty, Unwrap(c.children[i]))
                 ELSE IF FormDefault(d[i].ty) # None
                      THEN Ok(Unwrap(FormDefault(d[i].ty)))
                      ELSE Err(ErrorsFrom(Missing))
        es    == IF bound.ok THEN RunLocal(d[i].local, 1, Unwrap(bound.val)) ELSE <<>>
        valid == IF bound.ok /\ es # <<>> THEN Err(es) ELSE bound
        named == IF valid.ok THEN valid
                 ELSE Err(SetName(valid.errs, FieldNameView(c, d[i].name)))
    IN  IF ~named.ok /\ named.errs = <<>> THEN Err(ErrorsFrom(Unknown)) ELSE named

RECURSIVE FieldErrors_StopAtFirst(_, _, _)
\* The errors of the first failed field from i on, and no other's.
FieldErrors_StopAtFirst(d, c, i) ==
    IF i > Len(d) THEN <<>>
    ELSE IF ~FinalizeField(d, c, i).ok THEN FinalizeField(d, c, i).errs
    ELSE FieldErrors_StopAtFirst(d, c, i + 1)

RECURSIVE FieldErrors(_, _, _)
\* The errors the failed fields i.. add to the aggregator, in field order.
FieldErrors(d, c, i) ==
    IF i > Len(d) THEN <<>>
    ELSE FinalizeField(d, c, i).errs \o FieldErrors(d, c, i + 1)

RECURSIVE RunStruct(_, _, _, _, _)
\* The errors of the struct-level validators from validator k of field i on,
\* each named after the field that declares it.
RunStruct(d, c, o, i, k) ==
    IF i > Len(d) THEN <<>>
    ELSE IF k > Len(d[i].nonlocal) THEN RunStruct(d, c, o, i + 1, 1)
    ELSE SetName(ValidateStruct(d[i].nonlocal[k], d, o).errs,
                 FieldNameView(c, d[i].name))
         \o RunStruct(d, c, o, i, k + 1)

\* finalize that runs the struct-level validators even when a field failed.
FormFinalize_ValidateAnyway(d, c) ==
    LET e1 == c.errors \o FieldErrors(d, c, 1)
        o  == [i \in 1..Len(d) |->
                    IF FinalizeField(d, c, i).ok
                    THEN Unwrap(FinalizeField(d, c, i).val) ELSE Blank(d[i].ty)]
        e2 == e1 \o RunStruct(d, c, o, 1, 1)
    IN  IF e2 # <<>> THEN Err(e2) ELSE Ok(o)

\* finalize that forgets the errors recorded while pushing.
FormFinalize_DropPushErrors(d, c) ==
    LET e1 == FieldErrors(d, c, 1)
        o  == [i \in 1..Len(d) |-> Unwrap(FinalizeField(d, c, i).val)]
        e2 == e1 \o RunStruct(d, c, o, 1, 1)
    IN  IF e1 # <<>> THEN Err(e1)
        ELSE IF e2 # <<>> THEN Err(e2)
        ELSE Ok(o)

\* The generated finalize
FormFinalize(d, c) ==
    LET e1 == c.errors \o FieldErrors(d, c, 1)
        o  == [i \in 1..Len(d) |-> Unwrap(FinalizeField(d, c, i).val)]
        e2 == e1 \o RunStruct(d, c, o, 1, 1)
    IN  IF e1 # <<>> THEN Err(e1)
        ELSE IF e2 # <<>> THEN Err(e2)
        ELSE Ok(o)

\* The per-field expression that overwrites the names of the child's errors.
EncloseResult_Overwrite(r, path) ==
    IF r.ok THEN Ok(<<Unwrap(r.val)>>)
    ELSE IF r.errs = <<>> THEN Err(ErrorsFrom(Unknown))
    ELSE Err([k \in 1..Len(r.errs) |-> [r.errs[k] EXCEPT !.name = Some(path)]])

\* The generated finalize of an enclosing struct whose one field, named by
\* the last key of path, is the composite that returned r: the per-field
\* expression names the child's errors after the field and replaces an empty
\* failure; the struct is built around the child's value.
EncloseResult(r, path) ==
    IF r.ok THEN Ok(<<Unwrap(r.val)>>)
    ELSE IF SetName(r.errs, path) = <<>> THEN Err(ErrorsFrom(Unknown))
    ELSE Err(SetName(r.errs, path))

RECURSIVE TopFinalize(_, _)
\* The finalize of the outermost binder, for a composite that sits under
\* path and returned r: one enclosing struct per key of path, innermost first.
TopFinalize(r, path) ==
    IF path = <<>> THEN r
    ELSE TopFinalize(EncloseResult(r, path), SubSeq(path, 1, Len(path) - 1))

----------------------------------------------------------------------------
(* Inputs *)

LeafNames == {<<"a">>, <<"b">>}

LeafValues == {T_YES, T_off, T_nope, T_3}

Streams == {<<T_no, "none">>, <<T_Max, "none">>, <<T_Max, "io">>, <<T_Max, "forward">>}

LeafValueFields == {ValueField(NameView(n), v) : n \in LeafNames, v \in LeafValues}

LeafDataFields == {DataField(NameView(<<"a">>), s[1], s[2]) : s \in Streams}

Bases == {<<>>, <<"cat", "dog">>}

FormValueFields(prefix) ==
    {ValueField(NameViewUnder(prefix, e[1]), e[2]) :
        e \in {<<"name", T_Max>>, <<"name", T_3>>, <<"age", T_3>>, <<"age", T_three>>,
               <<"ok", T_yes>>, <<"_method", T_Max>>, <<"x", T_Max>>}}

FormDataFields(prefix) ==
    {DataField(NameViewUnder(prefix, n), T_Max, "none") : n \in {"name", "age"}}
        \cup {DataField(NameViewUnder(prefix, "file"), T_Max, "empty")}

----------------------------------------------------------------------------
(* The leaf binder protocol: init, pushes, finalize *)

IdleCache ==
    /\ lcache = <<>>
    /\ lcalls = <<>>

IdleHeaders ==
    /\ headers = <<>>
    /\ ctstate = <<>>
    /\ hlog = <<>>

IdleReq == IdleCache /\ IdleHeaders

IdleTemp ==
    /\ sink = <<>>
    /\ fs = <<>>
    /\ tlog = <<>>
    /\ tphase = "Idle"

IdleForm ==
    /\ decl = <<>>
    /\ form = <<>>
    /\ flog = <<>>
    /\ fphase = "Idle"
    /\ fresult = None
    /\ base = <<>>

IdleQuery ==
    /\ query = <<>>
    /\ qname = <<>>
    /\ qpc = "idle"
    /\ qidx = 0
    /\ qctxt = None
    /\ qcalls = <<>>
    /\ qresult = None

IdleLeaf ==
    /\ ctxt = <<>>
    /\ log = <<>>
    /\ phase = "Idle"
    /\ result = None

Init ==
    /\ ty \in LeafTypes
    /\ \E opts \in OptionsSet : ctxt = LeafInit(opts)
    /\ log = <<>>
    /\ phase = "Accumulating"
    /\ result = None
    /\ IdleForm
    /\ IdleQuery
    /\ IdleTemp
    /\ IdleReq

LeafPushValue ==
    /\ phase = "Accumulating"
    /\ Len(log) < MaxPushes
    /\ \E f \in LeafValueFields :
        /\ ctxt' = PushValue(ty, ctxt, f)
        /\ log' = Append(log, f)
    /\ UNCHANGED <<ty, phase, result, formVars, queryVars>>
    /\ UNCHANGED tempVars
    /\ UNCHANGED reqVars

LeafPushData ==
    /\ phase = "Accumulating"
    /\ Len(log) < MaxPushes
    /\ \E f \in LeafDataFields :
        /\ ctxt' = PushData(ty, ctxt, f)
        /\ log' = Append(log, f)
    /\ UNCHANGED <<ty, phase, result, formVars, queryVars>>
    /\ UNCHANGED tempVars
    /\ UNCHANGED reqVars

LeafFinalize ==
    /\ phase = "Accumulating"
    /\ phase' = "Finalized"
    /\ result' = Some(Finalize(ty, ctxt))
    /\ UNCHANGED <<ty, ctxt, log, formVars, queryVars>>
    /\ UNCHANGED tempVars
    /\ UNCHANGED reqVars

Next == LeafPushValue \/ LeafPushData \/ LeafFinalize

Spec == Init /\ [][Next]_vars

----------------------------------------------------------------------------
(* Request::query_value::<T> for a leaf type T *)

\* All sequences over S of length at most n.
SeqsUpTo(S, n) == UNION {[1..k -> S] : k \in 0..n}

QueryFields ==
    {ValueField(NameView(<<n>>), v) : n \in {"a", "z"}, v \in {T_YES, T_3, T_nope}}

\* f.name == name: the name up to the view's current key is the key name.
NameIs(f, name) == AsName(f.name) = <<name>>

\* query_value under strict options.
QueryValueOptions_Strict == Strict

\* The options query_value initialises the context with.
QueryValueOptions == Lenient

InitQuery ==
    /\ query \in SeqsUpTo(QueryFields, MaxQuery)
    /\ qname \in {"a", "b"}
    /\ ty \in LeafTypes
    /\ qpc = "find"
    /\ qidx = 0
    /\ qctxt = None
    /\ qcalls = <<>>
    /\ qresult = None
    /\ IdleLeaf
    /\ IdleForm
    /\ IdleTemp
    /\ IdleReq

\* query_value without the early return: the context is created and
\* finalized also when no field has the name.
QueryFind_NoEarlyReturn ==
    /\ qpc = "find"
    /\ qctxt' = Some(LeafInit(QueryValueOptions))
    /\ qcalls' = Append(qcalls, <<"init">>)
    /\ qpc' = "push"
    /\ qidx' = 1
    /\ UNCHANGED qresult
    /\ UNCHANGED <<query, qname, ty, ctxt, log, phase, result, formVars>>
    /\ UNCHANGED tempVars
    /\ UNCHANGED reqVars

\* if self.query_fields().find(|f| f.name == name).is_none() { return None; }
\* let mut ctxt = T::init(form::Options::Lenient);
QueryFind ==
    /\ qpc = "find"
    /\ IF \E i \in 1..Len(query) : NameIs(query[i], qname)
       THEN /\ qctxt' = Some(LeafInit(QueryValueOptions))
            /\ qcalls' = Append(qcalls, <<"init">>)
            /\ qpc' = "push"
            /\ qidx' = 1
            /\ UNCHANGED qresult
       ELSE /\ qresult' = Some(None)
            /\ qpc' = "done"
            /\ UNCHANGED <<qctxt, qcalls, qidx>>
    /\ UNCHANGED <<query, qname, ty, ctxt, log, phase, result, formVars>>
    /\ UNCHANGED tempVars
    /\ UNCHANGED reqVars

\* for_each without the filter: every query field is pushed.
QueryPush_NoFilter ==
    /\ qpc = "push"
    /\ qidx <= Len(query)
    /\ qctxt' = Some(PushValue(ty, Unwrap(qctxt), Shift(query[qidx])))
    /\ qcalls' = Append(qcalls, <<"push_value", qidx>>)
    /\ qidx' = qidx + 1
    /\ UNCHANGED <<query, qname, qpc, qresult, ty, ctxt, log, phase, result, formVars>>
    /\ UNCHANGED tempVars
    /\ UNCHANGED reqVars

\* One step of query_fields().filter(|f| f.name == name).for_each(push_value)
QueryPush ==
    /\ qpc = "push"
    /\ qidx <= Len(query)
    /\ IF NameIs(query[qidx], qname)
       THEN /\ qctxt' = Some(PushValue(ty, Unwrap(qctxt), Shift(query[qidx])))
            /\ qcalls' = Append(qcalls, <<"push_value", qidx>>)
       ELSE UNCHANGED <<qctxt, qcalls>>
    /\ qidx' = qidx + 1
    /\ UNCHANGED <<query, qname, qpc, qresult, ty, ctxt, log, phase, result, formVars>>
    /\ UNCHANGED tempVars
    /\ UNCHANGED reqVars

\* Some(T::finalize(ctxt))
QueryFinalize ==
    /\ qpc = "push"
    /\ qidx > Len(query)
    /\ qresult' = Some(Some(Finalize(ty, Unwrap(qctxt))))
    /\ qctxt' = None
    /\ qcalls' = Append(qcalls, <<"finalize">>)
    /\ qpc' = "done"
    /\ UNCHANGED <<query, qname, qidx, ty, ctxt, log, phase, result, formVars>>
    /\ UNCHANGED tempVars
    /\ UNCHANGED reqVars

NextQuery == QueryFind \/ QueryPush \/ QueryFinalize

SpecQuery == InitQuery /\ [][NextQuery]_vars

\* The leaf binder driven directly or by query_value.
InitLeafQuery == Init \/ InitQuery

NextLeafQuery == Next \/ NextQuery

SpecLeafQuery == InitLeafQuery /\ [][NextLeafQuery]_vars

----------------------------------------------------------------------------
(* Properties of the leaf binder *)

Finalized == phase = "Finalized"

Returned == Unwrap(result)

\* The outcome is a failure of kind Unexpected.
OutcomeUnexpected(o) == ~o.ok /\ \E i \in 1..Len(o.errs) : o.errs[i].kind = Unexpected

\* Every push so far is a value event that parses on its own.
AllValidValues ==
    \A i \in 1..Len(log) : log[i].shape = "value" /\ FromValue(ty, log[i]).ok

\* C1: under strict options, two (or more) value events pushed to one leaf,
\* each of which parses on its own, make finalize fail with Duplicate; it
\* returns none of the values.
C1_StrictDuplicate ==
    (Finalized /\ ctxt.opts.strict /\ Len(log) >= 2 /\ AllValidValues)
        => (~Returned.ok /\ Returned.val = None
            /\ Kinds(Returned.errs) = <<Duplicate>>)

C1_Witness ==
    /\ Finalized /\ ctxt.opts.strict /\ Len(log) = 2 /\ AllValidValues
    /\ FromValue(ty, log[1]) # FromValue(ty, log[2])
    /\ Kinds(Returned.errs) = <<Duplicate>>

\* C2 as stated: under strict options, more than one attempt always makes
\* finalize report Duplicate, whatever the outcomes of the attempts.
C2_Original ==
    (Finalized /\ ctxt.opts.strict /\ Len(log) > 1)
        => (~Returned.ok /\ Kinds(Returned.errs) = <<Duplicate>>)

\* C2 (amended): under strict options, after more than one attempt finalize
\* reports Duplicate when the first attempt succeeded, and otherwise surfaces
\* the failure of the first attempt, whatever the later attempts were.
C2_StrictFirstAttemptDecides ==
    (Finalized /\ ctxt.opts.strict /\ Len(log) > 1)
        => /\ ~Returned.ok
           /\ Kinds(Returned.errs) =
                IF Outcome(ty, log[1]).ok THEN <<Duplicate>>
                ELSE Kinds(Outcome(ty, log[1]).errs)

C2_Witness ==
    /\ Finalized /\ ctxt.opts.strict /\ Len(log) = 2
    /\ ~Outcome(ty, log[1]).ok /\ Outcome(ty, log[2]).ok
    /\ Kinds(Returned.errs) = <<Conversion>>

\* C3: init followed by finalize with no push returns the default of a type
\* that has one, under strict and lenient options alike, and fails with
\* Missing for a type that has none.
C3_NoPushDefaultOrMissing ==
    (Finalized /\ Len(log) = 0)
        => IF ty = "bool" THEN Returned = Ok(FALSE)
           ELSE ~Returned.ok /\ Kinds(Returned.errs) = <<Missing>>

C3_Witness ==
    Finalized /\ Len(log) = 0 /\ ty = "bool" /\ ctxt.opts.strict /\ Returned = Ok(FALSE)

\* C4 as stated: for a type with a default, finalize returns the default
\* also when the one supplied value fails to parse.
C4_DefaultOnParseFailure ==
    (Finalized /\ FieldDefault(ty) # None /\ Len(log) = 1
        /\ log[1].shape = "value" /\ ~FromValue(ty, log[1]).ok)
        => Returned = Ok(Unwrap(FieldDefault(ty)))

\* The first push whose outcome is not Unexpected, 0 when there is none.
FirstDecisive ==
    IF \E i \in 1..Len(log) : ~OutcomeUnexpected(Outcome(ty, log[i]))
    THEN CHOOSE i \in 1..Len(log) :
            /\ ~OutcomeUnexpected(Outcome(ty, log[i]))
            /\ \A j \in 1..(i - 1) : OutcomeUnexpected(Outcome(ty, log[j]))
    ELSE 0

\* r is the result the first decisive push calls for.
DecidedByFirst(r) ==
    IF FirstDecisive = 0
    THEN IF FieldDefault(ty) # None THEN r = Ok(Unwrap(FieldDefault(ty)))
         ELSE ~r.ok /\ Kinds(r.errs) = <<Missing>>
    ELSE LET o == Outcome(ty, log[FirstDecisive])
         IN  IF o.ok THEN r = o
             ELSE ~r.ok /\ Kinds(r.errs) = Kinds(o.errs)

\* C5: under lenient options the result of finalize, whenever it is called,
\* is decided by the first push whose outcome is not Unexpected (its value or
\* its error), and is the default or Missing when there is no such push.
C5_LenientFirstDecisive ==
    ((phase # "Idle") /\ ~ctxt.opts.strict)
        => /\ DecidedByFirst(Finalize(ty, ctxt))
           /\ Finalized => DecidedByFirst(Returned)

C5_Witness ==
    /\ Finalized /\ ~ctxt.opts.strict /\ Len(log) = 3
    /\ FirstDecisive = 2
    /\ Outcome(ty, log[2]).ok
    /\ Outcome(ty, log[3]) # Outcome(ty, log[2])
    /\ ~OutcomeUnexpected(Outcome(ty, log[3]))
    /\ Returned = Outcome(ty, log[2])

\* The query fields whose name is qname, in query order.
Matching == SelectSeq(query, LAMBDA f : NameIs(f, qname))

NoDuplicate(r) == \A i \in 1..Len(r.errs) : r.errs[i].kind # Duplicate

\* C6: under lenient options a leaf never reports Duplicate, and when every
\* value pushed is valid on its own finalize returns the first one;
\* query_value parses under lenient options, so of several pairs with the
\* key asked for a leaf type yields the value of the first.
C6_LenientFirstValue ==
    /\ (phase # "Idle" /\ ~ctxt.opts.strict)
        => /\ NoDuplicate(Finalize(ty, ctxt))
           /\ Finalized => NoDuplicate(Returned)
           /\ (Finalized /\ Len(log) >= 1 /\ AllValidValues)
                => Returned = FromValue(ty, log[1])
    /\ (qpc = "done" /\ qresult # Some(None))
        => /\ NoDuplicate(Unwrap(Unwrap(qresult)))
           /\ (\A i \in 1..Len(Matching) : FromValue(ty, Matching[i]).ok)
                => Unwrap(Unwrap(qresult)) = FromValue(ty, Matching[1])

C6_Witness ==
    /\ qpc = "done" /\ Len(Matching) = 2
    /\ FromValue(ty, Matching[1]).ok /\ FromValue(ty, Matching[2]).ok
    /\ FromValue(ty, Matching[1]) # FromValue(ty, Matching[2])
    /\ qresult = Some(Some(FromValue(ty, Matching[1])))

\* C7: the attempt counter is the number of push calls made since init.
C7_PushesCountsCalls == (phase # "Idle") => ctxt.pushes = Len(log)

C7_Witness ==
    /\ Len(log) = 3 /\ ctxt.pushes = 3
    /\ ctxt.value = Some(Outcome(ty, log[1]))
    /\ OutcomeUnexpected(Outcome(ty, log[2]))
    /\ ~Outcome(ty, log[3]).ok

----------------------------------------------------------------------------
(* The derived binder's protocol: init, pushes, finalize *)

InitForm ==
    /\ decl \in Shapes
    /\ base \in Bases
    /\ \E opts \in OptionsSet : form = FormInit(opts, decl)
    /\ flog = <<>>
    /\ fphase = "Accumulating"
    /\ fresult = None
    /\ ty = "bool"
    /\ IdleLeaf
    /\ IdleQuery
    /\ IdleTemp
    /\ IdleReq

DerivedPushValue ==
    /\ fphase = "Accumulating"
    /\ Len(flog) < MaxEvents
    /\ \E f \in FormValueFields(base) :
        /\ form' = FormPushValue(decl, form, f)
        /\ flog' = Append(flog, f)
    /\ UNCHANGED <<decl, base, fphase, fresult, leafVars, queryVars>>
    /\ UNCHANGED tempVars
    /\ UNCHANGED reqVars

DerivedPushData ==
    /\ fphase = "Accumulating"
    /\ Len(flog) < MaxEvents
    /\ \E f \in FormDataFields(base) :
        /\ form' = FormPushData(decl, form, f)
        /\ flog' = Append(flog, f)
    /\ UNCHANGED <<decl, base, fphase, fresult, leafVars, queryVars>>
    /\ UNCHANGED tempVars
    /\ UNCHANGED reqVars

DerivedFinalize ==
    /\ fphase = "Accumulating"
    /\ fphase' = "Finalized"
    /\ fresult' = Some(FormFinalize(decl, form))
    /\ UNCHANGED <<decl, base, form, flog, leafVars, queryVars>>
    /\ UNCHANGED tempVars
    /\ UNCHANGED reqVars

NextForm == DerivedPushValue \/ DerivedPushData \/ DerivedFinalize

SpecForm == InitForm /\ [][NextForm]_vars

----------------------------------------------------------------------------
(* Properties of the derived binder *)

FormFinalized == fphase = "Finalized"

FormReturned == Unwrap(fresult)

\* The event's leading key names no declared field.
Unmatched(f) == \A i \in 1..Len(decl) : decl[i].name # KeyLossy(f.name)

IsMethod(f) == KeyLossy(f.name) = "_method"

RECURSIVE Replay(_, _, _)
\* The context after the events es[k..] are pushed, in order, to c.
Replay(c, es, k) ==
    IF k > Len(es) THEN c ELSE Replay(FormPush(decl, c, es[k]), es, k + 1)

\* The context of a run in which only the events of flog that satisfy Keep
\* were pushed.
Had(Keep(_)) == Replay(FormInit(form.opts, decl), SelectSeq(flog, Keep), 1)

Matched(f) == ~Unmatched(f)

NotMethod(f) == ~IsMethod(f)

\* C8 as stated: under lenient options an event that matches no declared
\* field records no error, changes no child context, and finalize returns
\* exactly what it would return had the event never been pushed.
C8_Original ==
    (fphase # "Idle" /\ ~form.opts.strict)
        => /\ form.errors = <<>>
           /\ form.children = Had(Matched).children
           /\ FormFinalize(decl, form) = FormFinalize(decl, Had(Matched))

\* C8 (amended): under lenient options an event that matches no declared
\* field records no error and changes no child context; it changes the
\* context's parent record alone, and finalize returns what it would return
\* had the event never been pushed but the parent record been the same.
C8_LenientUnmatchedIgnored ==
    (fphase # "Idle" /\ ~form.opts.strict)
        => LET had  == Had(Matched)
               same == FormFinalize(decl, [had EXCEPT !.parent = form.parent])
           IN  /\ form.errors = <<>>
               /\ form.children = had.children
               /\ FormFinalize(decl, form) = same
               /\ FormFinalized => FormReturned = same

C8_Witness ==
    /\ FormFinalized /\ ~form.opts.strict /\ Len(flog) = 3
    /\ Unmatched(flog[2]) /\ ~IsMethod(flog[2])
    /\ Matched(flog[1]) /\ Matched(flog[3])
    /\ FormReturned.ok

\* The errors recorded for the events es[k..] that match no declared field
\* and are not _method.
RECURSIVE Rejected(_, _)
Rejected(es, k) ==
    IF k > Len(es) THEN <<>>
    ELSE IF Unmatched(es[k]) /\ ~IsMethod(es[k])
         THEN <<UnexpectedField(es[k])>> \o Rejected(es, k + 1)
         ELSE Rejected(es, k + 1)

\* es is a prefix of the sequence s.
IsPrefix(es, s) == Len(es) <= Len(s) /\ SubSeq(s, 1, Len(es)) = es

\* C9: under strict options every event that matches no declared field and
\* is not _method records one error in the aggregator when it is pushed, and
\* finalize then fails with the recorded errors in its error set, whether or
\* not every declared field was bound.
C9_StrictUnmatchedRecorded ==
    (fphase # "Idle" /\ form.opts.strict)
        => /\ form.errors = Rejected(flog, 1)
           /\ Rejected(flog, 1) # <<>> =>
                /\ ~FormFinalize(decl, form).ok
                /\ IsPrefix(Rejected(flog, 1), FormFinalize(decl, form).errs)
           /\ (FormFinalized /\ Rejected(flog, 1) # <<>>) =>
                /\ ~FormReturned.ok
                /\ IsPrefix(Rejected(flog, 1), FormReturned.errs)

C9_Witness ==
    /\ FormFinalized /\ form.opts.strict /\ decl = Person /\ Len(flog) = 3
    /\ \E i, j, k \in 1..3 :
        /\ flog[i] = ValueField(NameViewUnder(base, "name"), T_Max)
        /\ flog[j] = ValueField(NameViewUnder(base, "age"), T_3)
        /\ Unmatched(flog[k]) /\ ~IsMethod(flog[k])
    /\ ~FormReturned.ok
    /\ Len(FormReturned.errs) = 1

\* C10 as stated: a _method event pushed to a binder that declares no field
\* of that name records no error, touches no child context and does not
\* change what finalize returns, under strict and lenient options.
C10_Original ==
    (fphase # "Idle")
        => /\ form.errors = Had(NotMethod).errors
           /\ form.children = Had(NotMethod).children
           /\ FormFinalize(decl, form) = FormFinalize(decl, Had(NotMethod))

\* C10 (amended): a _method event pushed to a binder that declares no field
\* of that name records no error and touches no child context, under strict
\* and lenient options; it changes the context's parent record alone, and
\* finalize returns what it would return had the event never been pushed but
\* the parent record been the same.
C10_MethodIgnored ==
    (fphase # "Idle")
        => LET had  == Had(NotMethod)
               same == FormFinalize(decl, [had EXCEPT !.parent = form.parent])
           IN  /\ form.errors = had.errors
               /\ form.children = had.children
               /\ FormFinalize(decl, form) = same
               /\ FormFinalized => FormReturned = same

C10_Witness ==
    /\ FormFinalized /\ form.opts.strict /\ Len(flog) = 3
    /\ IsMethod(flog[2]) /\ Matched(flog[1]) /\ Matched(flog[3])
    /\ FormReturned.ok

\* Some event pushed so far matches no declared field and is not _method.
SomeRejected == \E k \in 1..Len(flog) : Unmatched(flog[k]) /\ ~IsMethod(flog[k])

AllRequired(d) == \A i \in 1..Len(d) : FormDefault(d[i].ty) = None

\* The event names field i, is a value field and is valid for the field: it
\* converts to a value that passes the field's validators.
ValidValueFor(f, i) ==
    /\ f.shape = "value"
    /\ KeyLossy(f.name) = decl[i].name
    /\ \/ decl[i].ty = "capstr"
       \/ decl[i].ty = "u16" /\ f.value = T_3
       \/ decl[i].ty = "bool" /\ f.value = T_yes
    /\ "len2" \in {decl[i].local[k] : k \in 1..Len(decl[i].local)} => Len(f.value) >= 2

\* The value a field of type T holds once bound to the text v.
Holding(T, v) ==
    CASE T = "capstr" -> [value |-> v, complete |-> TRUE]
      [] T = "u16" -> IF v = T_3 THEN 3 ELSE 0
      [] OTHER -> v = T_yes

\* Every declared field received exactly one event, a valid value event, and
\* nothing else was pushed.
OneValidEach ==
    /\ Len(flog) = Len(decl)
    /\ \A i \in 1..Len(decl) : \E k \in 1..Len(flog) : ValidValueFor(flog[k], i)

\* C12: when every field of a composite is required and each received exactly
\* one valid value event and nothing else, strict finalize succeeds and every
\* field holds the value pushed for it, in whatever order the events came.
C12_OneValidEachSucceeds ==
    (FormFinalized /\ form.opts.strict /\ AllRequired(decl) /\ OneValidEach)
        => /\ FormReturned.ok
           /\ \A i \in 1..Len(decl) : \A k \in 1..Len(flog) :
                ValidValueFor(flog[k], i)
                    => Unwrap(FormReturned.val)[i] = Holding(decl[i].ty, flog[k].value)

C12_Witness ==
    /\ FormFinalized /\ form.opts.strict /\ decl = Person
    /\ flog = <<ValueField(NameViewUnder(base, "age"), T_3),
                ValueField(NameViewUnder(base, "name"), T_Max)>>
    /\ FormReturned.ok
    /\ Unwrap(FormReturned.val) = <<[value |-> T_Max, complete |-> TRUE], 3>>

\* The single event (age, "three") of scenario B.
AgeThree == ValueField(NameViewUnder(base, "age"), T_three)

\* C13: finalize of a composite finalizes every field and collects all the
\* failures: Person after the single event (age, "three") fails with exactly
\* two errors, a Missing named name and a Conversion named age that carries
\* the raw value "three".
C13_AllFailuresCollected ==
    (FormFinalized /\ decl = Person /\ flog = <<AgeThree>>)
        => /\ ~FormReturned.ok
           /\ Len(FormReturned.errs) = 2
           /\ \E i, j \in 1..2 :
                /\ FormReturned.errs[i].kind = Conversion
                /\ FormReturned.errs[i].name = Some(base \o <<"age">>)
                /\ FormReturned.errs[i].value = Some(T_three)
                /\ FormReturned.errs[j].kind = Missing
                /\ FormReturned.errs[j].name = Some(base \o <<"name">>)

C13_Witness ==
    /\ FormFinalized /\ decl = Person /\ base = <<>> /\ flog = <<AgeThree>>
    /\ Kinds(FormReturned.errs) = <<Missing, Conversion>>
    /\ FormReturned.errs[2].name = Some(<<"age">>)

\* Field i of the declared shape has failed at finalize.
FieldFailed(i) == ~FinalizeField(decl, form, i).ok

\* C14: finalize of a composite returns a value only when no error was
\* recorded at push time, no field failed at finalize and no struct-level
\* validator recorded an error; when it fails, its error set is not empty,
\* and a field that failed with no error contributes one error of its own.
C14_ValueOnlyWithoutErrors ==
    FormFinalized
        => /\ FormReturned.ok
                => /\ form.errors = <<>>
                   /\ \A i \in 1..Len(decl) : ~FieldFailed(i)
                   /\ RunStruct(decl, form, Unwrap(FormReturned.val), 1, 1) = <<>>
           /\ ~FormReturned.ok => FormReturned.errs # <<>>
           /\ \A i \in 1..Len(decl) :
                (form.children[i] # None
                    /\ ~Finalize(decl[i].ty, Unwrap(form.children[i])).ok
                    /\ Finalize(decl[i].ty, Unwrap(form.children[i])).errs = <<>>)
                => /\ ~FormReturned.ok
                   /\ \E k \in 1..Len(FormReturned.errs) :
                        FormReturned.errs[k] = ErrorFrom(Unknown)

C14_Witness ==
    /\ FormFinalized /\ decl = Upload
    /\ form.children[1] # None
    /\ Finalize("dataonly", Unwrap(form.children[1])) = Err(<<>>)
    /\ FormReturned = Err(ErrorsFrom(Unknown))

\* Some error was recorded while pushing, or some field fails at finalize.
SomeFailure == form.errors # <<>> \/ \E i \in 1..Len(decl) : FieldFailed(i)

RECURSIVE FailedFrom(_)
\* The errors of the failed fields i.., every field finalized, in field order.
FailedFrom(i) ==
    IF i > Len(decl) THEN <<>>
    ELSE (IF FieldFailed(i) THEN FinalizeField(decl, form, i).errs ELSE <<>>)
         \o FailedFrom(i + 1)

\* C15: when an error was recorded while pushing or any field failed,
\* finalize fails with the push-time errors followed by the errors of every
\* failed field, and with nothing else: no value is built and no struct-level
\* validator adds an error.
C15_FailedFieldsSkipStructValidation ==
    (FormFinalized /\ SomeFailure)
        => /\ ~FormReturned.ok
           /\ FormReturned.val = None
           /\ FormReturned.errs = form.errors \o FailedFrom(1)
           /\ \A k \in 1..Len(FormReturned.errs) :
                FormReturned.errs[k].kind = Validation
                    => \E i \in 1..Len(decl) :
                        /\ FieldFailed(i)
                        /\ FormReturned.errs[k].name = Some(FieldNameView(form, decl[i].name))
                        /\ decl[i].local # <<>>

\* name is missing and, ok being false, the validator age declares would fail.
C15_Witness ==
    /\ FormFinalized /\ decl = Signup
    /\ flog = <<ValueField(NameViewUnder(base, "age"), T_3)>>
    /\ Kinds(FormReturned.errs) = <<Missing>>
    /\ ValidateStruct("consent", decl, <<Blank("capstr"), 3, FALSE>>).errs # <<>>

\* The bind of field i: the child's finalize when the field has a child, else
\* the type's default or Missing.
Bind(i) ==
    IF form.children[i] # None
    THEN Finalize(decl[i].ty, Unwrap(form.children[i]))
    ELSE IF FormDefault(decl[i].ty) # None
         THEN Ok(Unwrap(FormDefault(decl[i].ty)))
         ELSE Err(ErrorsFrom(Missing))

\* C16: a field's validators are evaluated only when the field's bind
\* succeeded: a field whose bind failed contributes its bind errors alone
\* (one Unknown error when there are none), none of them a Validation error,
\* and a field that bound a value its validator rejects fails with a
\* Validation error.
C16_ValidatorsOnlyOnBoundFields ==
    FormFinalized
        => \A i \in 1..Len(decl) :
            /\ ~Bind(i).ok
                => /\ ~FinalizeField(decl, form, i).ok
                   /\ Kinds(FinalizeField(decl, form, i).errs)
                        = (IF Bind(i).errs = <<>> THEN <<Unknown>>
                           ELSE Kinds(Bind(i).errs))
                   /\ \A k \in 1..Len(FinalizeField(decl, form, i).errs) :
                        FinalizeField(decl, form, i).errs[k].kind # Validation
            /\ (Bind(i).ok /\ decl[i].local = <<"len2">>)
                => (FinalizeField(decl, form, i).ok
                        <=> Len(Unwrap(Bind(i).val).value) >= 2)

\* The bind of Signup's name, which declares a field validator, failed as a
\* strict duplicate.
C16_Witness ==
    /\ FormFinalized /\ decl = Signup
    /\ Kinds(Bind(1).errs) = <<Duplicate>>
    /\ Kinds(FormReturned.errs) = <<Duplicate>>

\* Every declared field bound and passed its own validators, and no error
\* was recorded while pushing.
AllBound == form.errors = <<>> /\ \A i \in 1..Len(decl) : ~FieldFailed(i)

\* The struct finalize builds from the bound fields.
Built == [i \in 1..Len(decl) |-> Unwrap(FinalizeField(decl, form, i).val)]

\* The struct-level validators that fail on the built struct, each as the
\* pair of the declaring field and its position among that field's.
FailedValidators ==
    {p \in (1..Len(decl)) \X (1..2) :
        /\ p[2] <= Len(decl[p[1]].nonlocal)
        /\ ~ValidateStruct(decl[p[1]].nonlocal[p[2]], decl, Built).ok}

\* C17: when every declared field bound, every struct-level validator runs
\* on the built struct, each failure is named after the field that declares
\* the validator and merged into the result, and finalize fails exactly when
\* at least one validator failed.
C17_StructValidatorsDecide ==
    (FormFinalized /\ AllBound)
        => /\ FormReturned.ok <=> FailedValidators = {}
           /\ FormReturned.errs = RunStruct(decl, form, Built, 1, 1)
           /\ \A k \in 1..Len(FormReturned.errs) :
                /\ FormReturned.errs[k].kind = Validation
                /\ \E p \in FailedValidators :
                    FormReturned.errs[k].name = Some(FieldNameView(form, decl[p[1]].name))

\* What the outermost finalize returns.
TopReturned == TopFinalize(FormReturned, base)

\* The leaf of field i stored a Conversion failure.
ConversionAt(i) ==
    /\ form.children[i] # None
    /\ Unwrap(form.children[i]).value # None
    /\ ~Unwrap(Unwrap(form.children[i]).value).ok
    /\ Kinds(Unwrap(Unwrap(form.children[i]).value).errs) = <<Conversion>>

\* C18: a Conversion failure of the leaf at path a.b carries the path a.b in
\* the errors of the outermost finalize, however deep the composite sits: the
\* leaf's finalize sets the path and no enclosing binder overwrites it.
C18_ConversionKeepsLeafPath ==
    FormFinalized
        => /\ \A i \in 1..Len(decl) : ConversionAt(i)
                => /\ Finalize(decl[i].ty, Unwrap(form.children[i])).errs[1].name
                        = Some(base \o <<decl[i].name>>)
                   /\ \E k \in 1..Len(TopReturned.errs) :
                        /\ TopReturned.errs[k].kind = Conversion
                        /\ TopReturned.errs[k].name = Some(base \o <<decl[i].name>>)
           /\ \A k \in 1..Len(TopReturned.errs) :
                TopReturned.errs[k].kind = Conversion
                    => \E i \in 1..Len(decl) :
                        /\ ConversionAt(i)
                        /\ TopReturned.errs[k].name = Some(base \o <<decl[i].name>>)

C18_Witness ==
    /\ FormFinalized /\ decl = Person /\ base = <<"cat", "dog">> /\ ConversionAt(2)
    /\ \E k \in 1..Len(TopReturned.errs) :
        /\ TopReturned.errs[k].kind = Conversion
        /\ TopReturned.errs[k].name = Some(<<"cat", "dog", "age">>)
        /\ TopReturned.errs[k].value = Some(T_three)

----------------------------------------------------------------------------
(* The bool binder over the spellings of its tokens *)

ToAsciiUppercase(c) ==
    IF \E i \in 1..26 : LowerCase[i] = c
    THEN UpperCase[CHOOSE i \in 1..26 : LowerCase[i] = c]
    ELSE c

\* Every spelling of the lowercase text t in upper and lower case letters.
Spellings(t) ==
    {[i \in 1..Len(t) |-> IF i \in U THEN ToAsciiUppercase(t[i]) ELSE t[i]] :
        U \in SUBSET (1..Len(t))}

TrueTokens == Spellings(T_on) \cup Spellings(T_yes) \cup Spellings(T_true)

FalseTokens == Spellings(T_off) \cup Spellings(T_no) \cup Spellings(T_false)

\* Texts that are no token of bool: near misses, digits, the empty text.
OtherTexts ==
    Spellings(T_nope) \cup {<<>>, <<"1">>, <<"0">>, <<"o">>, <<"t">>, <<"y","e","s"," ">>,
                            <<"o","n","n">>, <<"f","a","l","s">>}

BoolTexts == TrueTokens \cup FalseTokens \cup OtherTexts

InitBool ==
    /\ ty = "bool"
    /\ \E opts \in OptionsSet : ctxt = LeafInit(opts)
    /\ log = <<>>
    /\ phase = "Accumulating"
    /\ result = None
    /\ IdleForm
    /\ IdleQuery
    /\ IdleTemp
    /\ IdleReq

\* The first push_value on a bool context.
BoolPushValue ==
    /\ phase = "Accumulating"
    /\ log = <<>>
    /\ \E v \in BoolTexts :
        /\ ctxt' = PushValue(ty, ctxt, ValueField(NameView(<<"a">>), v))
        /\ log' = Append(log, ValueField(NameView(<<"a">>), v))
    /\ UNCHANGED <<ty, phase, result, formVars, queryVars>>
    /\ UNCHANGED tempVars
    /\ UNCHANGED reqVars

NextBool == BoolPushValue \/ LeafFinalize

SpecBool == InitBool /\ [][NextBool]_vars

----------------------------------------------------------------------------
(* A leaf and an event of the shape it does not accept *)

\* T implements only the other one of from_value and from_data.
Mismatch(T, f) ==
    \/ f.shape = "data" /\ T \in {"bool", "u16"}
    \/ f.shape = "value" /\ T = "dataonly"

SomeMismatch == \E k \in 1..Len(log) : Mismatch(ty, log[k])

\* The result is the default of the type, or Missing when it has none.
DefaultOrMissing(r) ==
    IF FieldDefault(ty) # None THEN r = Ok(Unwrap(FieldDefault(ty)))
    ELSE ~r.ok /\ Kinds(r.errs) = <<Missing>>

\* C20 as stated: once a leaf received an event of the shape its type does
\* not accept, strict finalize fails with Unexpected; lenient finalize never
\* returns Unexpected and returns the default or Missing unless another push
\* decided the field.
C20_Original ==
    (Finalized /\ SomeMismatch)
        => IF ctxt.opts.strict
           THEN ~Returned.ok /\ Kinds(Returned.errs) = <<Unexpected>>
           ELSE /\ ~OutcomeUnexpected(Returned)
                /\ (\A k \in 1..Len(log) : OutcomeUnexpected(Outcome(ty, log[k])))
                        => DefaultOrMissing(Returned)

\* C20 (amended): the outcome of a push of the shape the type does not accept
\* is Unexpected. Under strict options it is stored when it is the first
\* push, and finalize then fails with Unexpected; after an earlier push it is
\* dropped and finalize fails with Duplicate or with the first push's
\* failure. Under lenient options it is swallowed: finalize never returns an
\* Unexpected error, and returns the default or Missing unless another push
\* decided the field with an outcome that is not Unexpected.
C20_MismatchIsUnexpected ==
    /\ \A k \in 1..Len(log) : Mismatch(ty, log[k])
            => /\ ~Outcome(ty, log[k]).ok
               /\ Kinds(Outcome(ty, log[k]).errs) = <<Unexpected>>
    /\ (phase # "Idle" /\ ctxt.opts.strict /\ Len(log) >= 1 /\ Mismatch(ty, log[1]))
            => /\ ctxt.value = Some(Outcome(ty, log[1]))
               /\ Finalized => ~Returned.ok /\ Kinds(Returned.errs) = <<Unexpected>>
    /\ (Finalized /\ ctxt.opts.strict /\ Len(log) >= 2 /\ ~Mismatch(ty, log[1]))
            => /\ ~Returned.ok
               /\ Kinds(Returned.errs) =
                    IF Outcome(ty, log[1]).ok THEN <<Duplicate>>
                    ELSE Kinds(Outcome(ty, log[1]).errs)
    /\ (phase # "Idle" /\ ~ctxt.opts.strict)
            => /\ (\A k \in 1..Len(log) : Mismatch(ty, log[k])) => ctxt.value = None
               /\ Finalized
                    => /\ ~OutcomeUnexpected(Returned)
                       /\ (\A k \in 1..Len(log) : OutcomeUnexpected(Outcome(ty, log[k])))
                            => DefaultOrMissing(Returned)

C20_Witness ==
    /\ Finalized /\ ctxt.opts.strict /\ ty = "u16"
    /\ Len(log) = 1 /\ log[1].shape = "data"
    /\ Unwrap(ctxt.value) = Outcome(ty, log[1])
    /\ Kinds(Returned.errs) = <<Unexpected>>

----------------------------------------------------------------------------
(* Properties of Request::query_value *)

\* The positions of the query fields whose name is the one asked for.
MatchingAt == {i \in 1..Len(query) : query[i].name.keys = <<qname>>}

RECURSIVE PushCalls(_)
\* The push calls for the matching fields from position i on, in query order.
PushCalls(i) ==
    IF i > Len(query) THEN <<>>
    ELSE (IF i \in MatchingAt THEN <<<<"push_value", i>>>> ELSE <<>>) \o PushCalls(i + 1)

\* C21: query_value uses the binder as init, then pushes, then one finalize:
\* the calls made so far start with the one init, every push is of a matching
\* field and they come in query order, finalize is called at most once and is
\* the last call; a finished query_value that found a match made exactly
\* init, one push per matching field in query order, and finalize.
C21_QueryProtocol ==
    /\ \A k \in 1..Len(qcalls) :
        /\ (qcalls[k] = <<"init">>) <=> (k = 1)
        /\ qcalls[k] = <<"finalize">> => k = Len(qcalls) /\ qpc = "done"
        /\ qcalls[k][1] = "push_value"
            => /\ qcalls[k][2] \in MatchingAt
               /\ \A j \in 1..(k - 1) :
                    qcalls[j][1] = "push_value" => qcalls[j][2] < qcalls[k][2]
    /\ (qpc = "done" /\ MatchingAt # {})
        => qcalls = <<<<"init">>>> \o PushCalls(1) \o <<<<"finalize">>>>
    /\ (qpc = "done" /\ MatchingAt = {}) => qcalls = <<>>
    /\ qpc = "done" => qctxt = None

C21_Witness ==
    /\ qpc = "done" /\ Len(query) = 3 /\ MatchingAt = {1, 3}
    /\ qcalls = <<<<"init">>, <<"push_value", 1>>, <<"push_value", 3>>, <<"finalize">>>>

RECURSIVE PushedFrom(_, _)
\* The context c after the matching fields from position i on were pushed.
PushedFrom(c, i) ==
    IF i > Len(query) THEN c
    ELSE PushedFrom(IF i \in MatchingAt THEN PushValue(ty, c, Shift(query[i])) ELSE c,
                    i + 1)

\* The first matching field.
FirstMatching == query[CHOOSE i \in MatchingAt : \A j \in MatchingAt : i <= j]

\* C22: query_value returns None exactly when no query field has the name;
\* otherwise it returns Some of what finalize makes of a lenient context to
\* which the matching fields were pushed, an error when the first matching
\* field fails to parse.
C22_QueryValueResult ==
    qpc = "done"
        => /\ (qresult = Some(None)) <=> (MatchingAt = {})
           /\ MatchingAt # {}
                => /\ qresult = Some(Some(Finalize(ty, PushedFrom(LeafInit(Lenient), 1))))
                   /\ ~FromValue(ty, Shift(FirstMatching)).ok
                        => ~Unwrap(Unwrap(qresult)).ok

C22_Witness ==
    /\ qpc = "done" /\ ty = "u16" /\ MatchingAt # {}
    /\ ~FromValue(ty, Shift(FirstMatching)).ok
    /\ ~Unwrap(Unwrap(qresult)).ok
    /\ Kinds(Unwrap(Unwrap(qresult)).errs) = <<Conversion>>

----------------------------------------------------------------------------
(* The temporary file sink: TempFile *)

MaxPersists == 3

\* The temporary path NamedTempFile::new_in creates, and the destinations the
\* application persists to; x1 lies on another file system than the rest.
TempPathName == "tmp"

Destinations == {"d1", "d2", "x1"}

Paths == {TempPathName} \cup Destinations

Device(p) == IF p = "x1" THEN 2 ELSE 1

\* Either<TempPath, PathBuf>
Left(p) == [side |-> "Left", p |-> p]

Right(p) == [side |-> "Right", p |-> p]

\* TempFile::File and TempFile::Buffered
File(file_name, content_type, path, len) ==
    [variant |-> "File", file_name |-> file_name, content_type |-> content_type,
     path |-> path, len |-> len]

Buffered(content) == [variant |-> "Buffered", content |-> content]

\* What a file holds: the first len bytes of the content named by of.
Blob(of, len) == [of |-> of, len |-> len]

EmptyFs == [p \in Paths |-> None]

\* TempFile::len
TempLen(t) == IF t.variant = "File" THEN t.len ELSE Len(t.content)

\* TempFile::path
PathOf(t) == IF t.variant = "File" THEN Some(t.path.p) ELSE None

\* TempFile::file_name
FileName(t) == IF t.variant = "File" THEN t.file_name ELSE None

\* TempFile::content_type
ContentType(t) == IF t.variant = "File" THEN t.content_type ELSE None

\* A rename that leaves the source in place: a copy.
Rename_Copy(files, from, to, fault) ==
    IF fault = "io" \/ files[from] = None \/ Device(from) # Device(to)
    THEN [ok |-> FALSE, fs |-> files]
    ELSE [ok |-> TRUE, fs |-> [files EXCEPT ![to] = files[from]]]

\* A rename that unlinks the source also when it is the destination.
Rename_UnlinkSource(files, from, to, fault) ==
    IF fault = "io" \/ files[from] = None \/ Device(from) # Device(to)
    THEN [ok |-> FALSE, fs |-> files]
    ELSE [ok |-> TRUE, fs |-> [files EXCEPT ![to] = files[from], ![from] = None]]

\* rename(2), as fs::rename and TempPath::persist use it: fails on an I/O
\* fault, on a missing source and across file systems; replaces the
\* destination; renaming a file onto itself changes nothing.
Rename(files, from, to, fault) ==
    IF fault = "io" \/ files[from] = None \/ Device(from) # Device(to)
    THEN [ok |-> FALSE, fs |-> files]
    ELSE IF from = to THEN [ok |-> TRUE, fs |-> files]
    ELSE [ok |-> TRUE, fs |-> [files EXCEPT ![to] = files[from], ![from] = None]]

\* A drop that leaves the file behind.
DropTempPath_Keep(files, p) == files

\* Drop of a TempPath: the file at the path is removed.
DropTempPath(files, p) == [files EXCEPT ![p] = None]

\* Drop of a TempFile: only a TempPath (Either::Left) removes its file.
DropTempFile(files, t) ==
    IF t.variant = "File" /\ t.path.side = "Left"
    THEN DropTempPath(files, t.path.p)
    ELSE files

\* The arm Either::Left rebuilding the sink at the destination the way the
\* buffered arm does: without file name and content type.
PersistLeft_ForgetsName(t, files, new_path, fault) ==
    LET replaced == File(None, None, Right(new_path), t.len)
        r        == Rename(files, t.path.p, new_path, fault)
    IN  IF fault = "join"
        THEN [t |-> replaced, fs |-> DropTempPath(files, t.path.p), ok |-> FALSE]
        ELSE IF r.ok THEN [t |-> replaced, fs |-> r.fs, ok |-> TRUE]
        ELSE [t |-> [replaced EXCEPT !.path = Left(t.path.p)], fs |-> r.fs, ok |-> FALSE]

\* persist_to, the arm Either::Left(temp_path): the blocking task runs
\* TempPath::persist; when the task itself fails the temp path is dropped in
\* it and the error is returned by `?` at once; when persist fails the temp
\* path is put back.
PersistLeft(t, files, new_path, fault) ==
    LET replaced == [t EXCEPT !.path = Right(new_path)]
        r        == Rename(files, t.path.p, new_path, fault)
    IN  IF fault = "join"
        THEN [t |-> replaced, fs |-> DropTempPath(files, t.path.p), ok |-> FALSE]
        ELSE IF r.ok THEN [t |-> replaced, fs |-> r.fs, ok |-> TRUE]
        ELSE [t |-> [replaced EXCEPT !.path = Left(t.path.p)], fs |-> r.fs, ok |-> FALSE]

\* The arm Either::Right renaming from the original temporary path.
PersistRight_FromTemp(t, files, new_path, fault) ==
    LET replaced == [t EXCEPT !.path = Right(new_path)]
        r        == Rename(files, TempPathName, new_path, fault)
    IN  IF r.ok THEN [t |-> replaced, fs |-> r.fs, ok |-> TRUE]
        ELSE [t |-> [replaced EXCEPT !.path = Right(t.path.p)], fs |-> r.fs, ok |-> FALSE]

\* persist_to, the arm Either::Right(prev): fs::rename(prev, new_path); on
\* failure prev is put back.
PersistRight(t, files, new_path, fault) ==
    LET replaced == [t EXCEPT !.path = Right(new_path)]
        r        == Rename(files, t.path.p, new_path, fault)
    IN  IF r.ok THEN [t |-> replaced, fs |-> r.fs, ok |-> TRUE]
        ELSE [t |-> [replaced EXCEPT !.path = Right(t.path.p)], fs |-> r.fs, ok |-> FALSE]

\* The arm TempFile::Buffered that writes the file and leaves self buffered.
PersistBuffered_StaysBuffered(t, files, new_path, fault) ==
    CASE fault = "create" -> [t |-> t, fs |-> files, ok |-> FALSE]
      [] fault = "write" ->
            [t |-> t, fs |-> [files EXCEPT ![new_path] = Some(Blob(t.content, 0))],
             ok |-> FALSE]
      [] OTHER ->
            [t |-> t,
             fs |-> [files EXCEPT ![new_path] = Some(Blob(t.content, Len(t.content)))],
             ok |-> TRUE]

\* The arm TempFile::Buffered replacing self before the write is known to
\* have succeeded.
PersistBuffered_CommitEarly(t, files, new_path, fault) ==
    CASE fault = "create" -> [t |-> t, fs |-> files, ok |-> FALSE]
      [] fault = "write" ->
            [t |-> File(None, None, Right(new_path), Len(t.content)),
             fs |-> [files EXCEPT ![new_path] = Some(Blob(t.content, 0))],
             ok |-> FALSE]
      [] OTHER ->
            [t |-> File(None, None, Right(new_path), Len(t.content)),
             fs |-> [files EXCEPT ![new_path] = Some(Blob(t.content, Len(t.content)))],
             ok |-> TRUE]

\* persist_to, the arm TempFile::Buffered: File::create, write_all, then self
\* becomes a File; either step may fail and return by `?`.
PersistBuffered(t, files, new_path, fault) ==
    CASE fault = "create" -> [t |-> t, fs |-> files, ok |-> FALSE]
      [] fault = "write" ->
            [t |-> t, fs |-> [files EXCEPT ![new_path] = Some(Blob(t.content, 0))],
             ok |-> FALSE]
      [] OTHER ->
            [t |-> File(None, None, Right(new_path), Len(t.content)),
             fs |-> [files EXCEPT ![new_path] = Some(Blob(t.content, Len(t.content)))],
             ok |-> TRUE]

\* TempFile::persist_to
PersistTo(t, files, new_path, fault) ==
    IF t.variant = "Buffered" THEN PersistBuffered(t, files, new_path, fault)
    ELSE IF t.path.side = "Left" THEN PersistLeft(t, files, new_path, fault)
    ELSE PersistRight(t, files, new_path, fault)

\* The faults a persist_to call can meet, by the arm it takes.
PersistFaults(t) ==
    IF t.variant = "Buffered" THEN {"none", "create", "write"}
    ELSE IF t.path.side = "Left" THEN {"none", "io", "join"}
    ELSE {"none", "io"}

\* Limits::FILE
LimitsFILE == 1048576

\* The limits of the request's configuration: file and file/png, each set or not.
LimitsSet == {[file |-> f, png |-> x] : f \in {None, Some(4)}, x \in {None, Some(2)}}

\* The content types of a data field: one with an extension, one without.
ContentTypes == {[top |-> "image", ext |-> Some("png")], [top |-> "x-unknown", ext |-> None]}

\* Limits::find(["file", ext])
LimitsFind(limits, ext) == IF ext = "png" THEN limits.png ELSE None

\* A resolution that never looks at the content-type extension.
ResolveLimit_GenericOnly(limits, content_type) ==
    IF limits.file # None THEN Unwrap(limits.file) ELSE LimitsFILE

\* The limit resolution of TempFile::from
ResolveLimit(limits, content_type) ==
    LET ext   == IF content_type = None THEN None ELSE Unwrap(content_type).ext
        keyed == IF ext = None THEN None ELSE LimitsFind(limits, Unwrap(ext))
    IN  IF keyed # None THEN Unwrap(keyed)
        ELSE IF limits.file # None THEN Unwrap(limits.file)
        ELSE LimitsFILE

\* A stream that ignores the limit.
StreamTo_Unlimited(n, limit) == [written |-> n, complete |-> TRUE]

\* data.open(limit).stream_to(file): N { written, complete } for a stream of n bytes
StreamTo(n, limit) ==
    [written |-> IF n <= limit THEN n ELSE limit, complete |-> n <= limit]

\* TempFile::from: the temporary file is created, the stream is written to it
\* up to the limit; when the stream fails, or the future is dropped in the
\* middle, the temp path is dropped with it.
TempFrom(files, limits, file_name, content_type, n, fault) ==
    LET limit == ResolveLimit(limits, content_type)
        cap   == StreamTo(n, limit)
    IN  CASE fault = "create" -> [ok |-> FALSE, val |-> None, fs |-> files]
          [] fault \in {"io", "cancel"} ->
                [ok |-> FALSE, val |-> None,
                 fs |-> DropTempPath(
                            [files EXCEPT ![TempPathName] = Some(Blob("stream", 0))],
                            TempPathName)]
          [] OTHER ->
                [ok |-> TRUE,
                 val |-> Some([value |-> File(file_name, content_type,
                                              Left(TempPathName), cap.written),
                               n |-> cap]),
                 fs |-> [files EXCEPT ![TempPathName] = Some(Blob("stream", cap.written))]]

\* <Capped<TempFile> as FromFormField>::from_value
TempFromValue(field) ==
    [value |-> Buffered(field.value),
     n |-> [written |-> Len(field.value), complete |-> TRUE]]

StreamLens == {2, 3, 5, LimitsFILE + 1}

BufferedValues == {T_Max, T_no}

FileNames == {Some("photo")}

IsPersist(e) == e.op = "persist_to"

InitTemp ==
    /\ sink = None
    /\ fs = EmptyFs
    /\ tlog = <<>>
    /\ tphase = "Unbound"
    /\ ty = "bool"
    /\ IdleLeaf
    /\ IdleForm
    /\ IdleQuery
    /\ IdleReq

\* <Capped<TempFile> as FromFormField>::from_data
TempFromData ==
    /\ tphase = "Unbound"
    /\ \E limits \in LimitsSet, ct \in ContentTypes, name \in FileNames,
          n \in StreamLens, fault \in {"none", "create", "io", "cancel"} :
        LET r == TempFrom(fs, limits, name, Some(ct), n, fault)
        IN  /\ sink' = IF r.ok THEN Some(Unwrap(r.val).value) ELSE None
            /\ fs' = r.fs
            /\ tphase' = IF r.ok THEN "Live" ELSE "Failed"
            /\ tlog' = Append(tlog, [op |-> "from_data", limits |-> limits,
                                     content_type |-> Some(ct), n |-> n,
                                     fault |-> fault, ok |-> r.ok,
                                     cap |-> IF r.ok THEN Some(Unwrap(r.val).n) ELSE None])
    /\ UNCHANGED <<leafVars, formVars, queryVars>>
    /\ UNCHANGED reqVars

\* <Capped<TempFile> as FromFormField>::from_value
TempFromValueField ==
    /\ tphase = "Unbound"
    /\ \E v \in BufferedValues :
        LET r == TempFromValue(ValueField(NameView(<<"a">>), v))
        IN  /\ sink' = Some(r.value)
            /\ tlog' = Append(tlog, [op |-> "from_value", ok |-> TRUE, cap |-> Some(r.n)])
    /\ tphase' = "Live"
    /\ UNCHANGED <<fs, leafVars, formVars, queryVars>>
    /\ UNCHANGED reqVars

\* TempFile::persist_to
TempPersistTo ==
    /\ tphase = "Live"
    /\ Len(SelectSeq(tlog, IsPersist)) < MaxPersists
    /\ \E d \in Destinations, fault \in PersistFaults(Unwrap(sink)) :
        LET r == PersistTo(Unwrap(sink), fs, d, fault)
        IN  /\ sink' = Some(r.t)
            /\ fs' = r.fs
            /\ tlog' = Append(tlog, [op |-> "persist_to", dest |-> d, fault |-> fault,
                                     ok |-> r.ok, before |-> Unwrap(sink),
                                     fsBefore |-> fs])
    /\ UNCHANGED <<tphase, leafVars, formVars, queryVars>>
    /\ UNCHANGED reqVars

\* The sink goes out of scope.
TempDrop ==
    /\ tphase = "Live"
    /\ fs' = DropTempFile(fs, Unwrap(sink))
    /\ sink' = None
    /\ tphase' = "Dropped"
    /\ tlog' = Append(tlog, [op |-> "drop", ok |-> TRUE, before |-> Unwrap(sink),
                             fsBefore |-> fs])
    /\ UNCHANGED <<leafVars, formVars, queryVars>>
    /\ UNCHANGED reqVars

NextTemp == TempFromData \/ TempFromValueField \/ TempPersistTo \/ TempDrop

SpecTemp == InitTemp /\ [][NextTemp]_vars

----------------------------------------------------------------------------
(* Properties of the temporary file sink *)

\* The last call and the one before it.
LastCall == tlog[Len(tlog)]

PrevCall == tlog[Len(tlog) - 1]

\* The last two calls were persist_to on a file-backed sink, to two different
\* destinations, and the first of them succeeded.
PersistedTwice ==
    /\ tphase = "Live" /\ Len(tlog) >= 2
    /\ IsPersist(LastCall) /\ IsPersist(PrevCall)
    /\ PrevCall.before.variant = "File"
    /\ PrevCall.ok
    /\ PrevCall.dest # LastCall.dest

\* C23: when persist_to is called twice on a file-backed sink with different
\* destinations and the first call succeeded, the second call renames the
\* file at the first destination, not the original temporary path: it
\* succeeds exactly when that rename can, and then the second destination
\* holds what the first held, the first holds nothing, and path() is the
\* second destination.
C23_SecondPersistMovesFromFirst ==
    PersistedTwice
        => /\ LastCall.before.path = Right(PrevCall.dest)
           /\ LastCall.ok <=> (LastCall.fault = "none"
                                /\ Device(PrevCall.dest) = Device(LastCall.dest))
           /\ LastCall.ok
                => /\ fs[LastCall.dest] = LastCall.fsBefore[PrevCall.dest]
                   /\ fs[LastCall.dest] # None
                   /\ fs[PrevCall.dest] = None
                   /\ fs[TempPathName] = None
                   /\ PathOf(Unwrap(sink)) = Some(LastCall.dest)

C23_Witness ==
    /\ PersistedTwice /\ LastCall.ok
    /\ PrevCall.before.path = Left(TempPathName)
    /\ PrevCall.dest = "d1" /\ LastCall.dest = "d2"
    /\ fs["d2"] = Some(Blob("stream", 2)) /\ fs["d1"] = None
    /\ PathOf(Unwrap(sink)) = Some("d2")

\* The last call was a persist_to that returned an error.
PersistFailed == tphase = "Live" /\ Len(tlog) >= 1 /\ IsPersist(LastCall) /\ ~LastCall.ok

\* C24: whenever persist_to returns an error, whatever step failed, the sink
\* is what it was before the call: same variant, same placement, same path.
C24_FailedPersistRollsBack ==
    PersistFailed => Unwrap(sink) = LastCall.before

\* The last call was a persist_to of a sink in temporary placement to a
\* destination on another file system, with no I/O fault.
CrossedDevices ==
    /\ tphase = "Live" /\ Len(tlog) >= 1 /\ IsPersist(LastCall)
    /\ LastCall.before.variant = "File"
    /\ LastCall.before.path.side = "Left"
    /\ LastCall.fault = "none"
    /\ Device(LastCall.before.path.p) # Device(LastCall.dest)

\* C25: when the rename of a sink in temporary placement fails because the
\* destination is on another file system, persist_to falls back to a copy
\* and returns success with the file at the destination.
C25_CrossDeviceFallsBackToCopy ==
    CrossedDevices
        => /\ LastCall.ok
           /\ fs[LastCall.dest] = LastCall.fsBefore[LastCall.before.path.p]
           /\ PathOf(Unwrap(sink)) = Some(LastCall.dest)

\* Some persist_to call so far succeeded.
EverPersisted == \E k \in 1..Len(tlog) : IsPersist(tlog[k]) /\ tlog[k].ok

\* C26: after a successful persist_to(p), on a buffered or a file-backed
\* sink, path() is Some(p); once a persist_to succeeded, path() is Some after
\* every later persist_to call, successful or failed, and the sink is never
\* buffered again.
C26_PathKnownOncePersisted ==
    tphase = "Live"
        => /\ (Len(tlog) >= 1 /\ IsPersist(LastCall) /\ LastCall.ok)
                => PathOf(Unwrap(sink)) = Some(LastCall.dest)
           /\ EverPersisted
                => /\ PathOf(Unwrap(sink)) # None
                   /\ Unwrap(sink).variant = "File"

\* A buffered sink was persisted, and a later persist_to failed.
C26_Witness ==
    /\ tphase = "Live" /\ Len(tlog) = 3
    /\ tlog[1].op = "from_value"
    /\ IsPersist(tlog[2]) /\ tlog[2].ok /\ tlog[2].dest = "d1"
    /\ IsPersist(tlog[3]) /\ ~tlog[3].ok
    /\ PathOf(Unwrap(sink)) = Some("d1")

\* The last two calls were persist_to with the same destination, the first
\* successful, the second meeting no I/O fault.
PersistedAgain ==
    /\ tphase = "Live" /\ Len(tlog) >= 2
    /\ IsPersist(LastCall) /\ IsPersist(PrevCall)
    /\ PrevCall.ok
    /\ PrevCall.dest = LastCall.dest
    /\ LastCall.fault = "none"

\* C27: persist_to(d) after a successful persist_to(d) succeeds and changes
\* nothing: the sink, its path and its length are what they were, and so is
\* the file at d and every other file.
C27_PersistIdempotent ==
    PersistedAgain
        => /\ LastCall.ok
           /\ Unwrap(sink) = LastCall.before
           /\ PathOf(Unwrap(sink)) = Some(LastCall.dest)
           /\ TempLen(Unwrap(sink)) = TempLen(LastCall.before)
           /\ fs = LastCall.fsBefore
           /\ fs[LastCall.dest] # None

C27_Witness ==
    /\ PersistedAgain /\ LastCall.ok
    /\ tlog[1].op = "from_data" /\ Len(tlog) = 3
    /\ LastCall.dest = "d2"
    /\ fs["d2"] = Some(Blob("stream", 4))

\* The sink is live and every persist_to called on it so far, at least one,
\* succeeded.
OnlySuccessfulPersists ==
    /\ tphase = "Live" /\ Len(tlog) >= 2
    /\ \A i \in 2..Len(tlog) : IsPersist(tlog[i]) /\ tlog[i].ok

\* The paths at which a file exists.
Occupied == {p \in Paths : fs[p] # None}

\* C28: after any sequence of successful persist_to calls the content exists
\* at exactly one location, the most recent destination: no earlier
\* destination and not the temporary path holds a file.
C28_PersistNeverCopies ==
    OnlySuccessfulPersists
        => /\ Occupied = {LastCall.dest}
           /\ PathOf(Unwrap(sink)) = Some(LastCall.dest)
           /\ Unwrap(fs[LastCall.dest]).len = TempLen(Unwrap(sink))

C28_Witness ==
    /\ OnlySuccessfulPersists
    /\ Len(tlog) = 1 + MaxPersists
    /\ tlog[1].op = "from_data"
    /\ tlog[2].dest = "d1" /\ tlog[3].dest = "d2" /\ tlog[4].dest = "d1"
    /\ Occupied = {"d1"}

\* The sink was dropped by the last step.
Dropped == tphase = "Dropped" /\ LastCall.op = "drop"

\* The sink, as it was when dropped, was still in temporary placement.
DroppedStaged ==
    /\ Dropped
    /\ LastCall.before.variant = "File"
    /\ LastCall.before.path.side = "Left"

\* C29: a staged temporary file is removed when its sink is dropped in
\* temporary placement, also when the data-field bind failed or was
\* cancelled in the middle of the stream, and also after a failed persist_to;
\* the drop removes nothing else, so a persisted file stays.
C29_DropCleansStagedFile ==
    /\ tphase = "Failed" => fs = EmptyFs
    /\ DroppedStaged
        => /\ fs[TempPathName] = None
           /\ \A p \in Destinations : fs[p] = LastCall.fsBefore[p]
    /\ (Dropped /\ ~DroppedStaged) => fs = LastCall.fsBefore
    /\ Dropped => fs[TempPathName] = None

\* Dropped in temporary placement right after a persist_to that failed and
\* was rolled back: the staged file was there and is gone.
C29_Witness ==
    /\ DroppedStaged
    /\ Len(tlog) = 3
    /\ IsPersist(PrevCall) /\ ~PrevCall.ok
    /\ LastCall.fsBefore[TempPathName] # None
    /\ fs = EmptyFs

\* A persisted file is still there after the drop.
C29_PersistedKept ==
    /\ Dropped /\ ~DroppedStaged
    /\ IsPersist(PrevCall) /\ PrevCall.ok
    /\ fs[PrevCall.dest] # None

\* The data-field bind of a Capped<TempFile> has just returned a sink.
StreamBound ==
    /\ tphase = "Live" /\ Len(tlog) = 1
    /\ tlog[1].op = "from_data" /\ tlog[1].ok

\* The limit in force for the bind.
BoundLimit == ResolveLimit(tlog[1].limits, tlog[1].content_type)

\* C30: a stream longer than the resolved limit binds successfully, marked
\* incomplete, with len() equal to the limit; a stream of at most the limit
\* binds complete with len() equal to its length. No stream length alone
\* makes the bind fail.
C30_TruncationIsNotFailure ==
    /\ StreamBound
        => LET cap == Unwrap(tlog[1].cap)
               len == TempLen(Unwrap(sink))
           IN  /\ len = cap.written
               /\ tlog[1].n > BoundLimit => (~cap.complete /\ len = BoundLimit)
               /\ tlog[1].n <= BoundLimit => (cap.complete /\ len = tlog[1].n)
    /\ (Len(tlog) >= 1 /\ tlog[1].op = "from_data" /\ tlog[1].fault = "none")
        => tlog[1].ok

C30_Witness ==
    /\ StreamBound
    /\ tlog[1].n = 5 /\ BoundLimit = 4
    /\ ~Unwrap(tlog[1].cap).complete
    /\ TempLen(Unwrap(sink)) = 4
    /\ fs[TempPathName] = Some(Blob("stream", 4))

\* The data-field bind of a Capped<TempFile> returned a sink; its log entry
\* keeps the configured limits, the content type and the stream length.
DataBound == Len(tlog) >= 1 /\ tlog[1].op = "from_data" /\ tlog[1].ok

\* The limit the configuration prescribes for the bind: file/ext when the
\* content type has an extension and that limit is configured, else file
\* when configured, else the default of 1 MiB.
PrescribedLimit ==
    LET limits == tlog[1].limits
        ext    == Unwrap(tlog[1].content_type).ext
    IN  IF ext = Some("png") /\ limits.png # None THEN Unwrap(limits.png)
        ELSE IF limits.file # None THEN Unwrap(limits.file)
        ELSE 1048576

\* C31: the stream of a data field bound to the temporary file sink is cut
\* at the limit keyed by the content type's extension if configured, else at
\* the generic file limit if configured, else at the default; a content type
\* without extension goes straight to the generic limit.
C31_LimitResolution ==
    DataBound
        => LET cap == Unwrap(tlog[1].cap)
               n   == tlog[1].n
           IN  /\ cap.complete <=> n <= PrescribedLimit
               /\ cap.written = IF n <= PrescribedLimit THEN n ELSE PrescribedLimit

\* A png stream of three bytes under file/png = 2 and file = 4 is cut at 2.
C31_Witness ==
    /\ DataBound
    /\ tlog[1].limits = [file |-> Some(4), png |-> Some(2)]
    /\ Unwrap(tlog[1].content_type).ext = Some("png")
    /\ tlog[1].n = 3
    /\ Unwrap(tlog[1].cap) = [written |-> 2, complete |-> FALSE]

\* The last call was persist_to on a sink that was buffered.
PersistedBuffered ==
    /\ tphase = "Live" /\ Len(tlog) >= 2
    /\ IsPersist(LastCall)
    /\ LastCall.before.variant = "Buffered"

\* C39: persist_to on a buffered sink writes the content to a new file at
\* the destination. On success the sink is file-backed at the destination
\* with no file name and no content type; when creating or writing the file
\* fails the sink is still buffered with the same content.
C39_PersistBufferedWritesFresh ==
    PersistedBuffered
        => LET content == LastCall.before.content
               t       == Unwrap(sink)
           IN  /\ LastCall.ok <=> LastCall.fault = "none"
               /\ LastCall.ok
                    => /\ t.variant = "File"
                       /\ PathOf(t) = Some(LastCall.dest)
                       /\ FileName(t) = None
                       /\ ContentType(t) = None
                       /\ fs[LastCall.dest] = Some(Blob(content, Len(content)))
               /\ ~LastCall.ok
                    => /\ t.variant = "Buffered"
                       /\ t.content = content
                       /\ PathOf(t) = None

\* A buffered sink, after a write failure, persisted at the second attempt.
C39_Witness ==
    /\ PersistedBuffered /\ LastCall.ok
    /\ Len(tlog) = 3
    /\ IsPersist(PrevCall) /\ PrevCall.fault = "write"
    /\ PrevCall.before = LastCall.before
    /\ Unwrap(sink) = File(None, None, Right(LastCall.dest), Len(LastCall.before.content))

\* The last call was persist_to.
JustPersisted == tphase = "Live" /\ Len(tlog) >= 2 /\ IsPersist(LastCall)

\* C40: len() is the same before and after every persist_to, successful or
\* failed, also across the change from buffered to file-backed; file_name()
\* and content_type() of a file-backed sink are not changed by persist_to.
C40_PersistKeepsLenAndNames ==
    JustPersisted
        => /\ TempLen(Unwrap(sink)) = TempLen(LastCall.before)
           /\ LastCall.before.variant = "File"
                => /\ FileName(Unwrap(sink)) = FileName(LastCall.before)
                   /\ ContentType(Unwrap(sink)) = ContentType(LastCall.before)

\* A named, typed upload moved out of temporary placement keeps its name,
\* type and length.
C40_Witness ==
    /\ JustPersisted /\ LastCall.ok
    /\ LastCall.before.variant = "File"
    /\ LastCall.before.path.side = "Left"
    /\ FileName(Unwrap(sink)) = Some("photo")
    /\ ContentType(Unwrap(sink)) # None
    /\ TempLen(Unwrap(sink)) = 4

\* A buffered sink made file-backed keeps its length.
C40_BufferedKept ==
    /\ JustPersisted /\ LastCall.ok
    /\ LastCall.before.variant = "Buffered"
    /\ Unwrap(sink).variant = "File"
    /\ TempLen(Unwrap(sink)) = Len(LastCall.before.content)
    /\ TempLen(Unwrap(sink)) > 0

\* C34: once a leaf context holds a stored outcome, success or failure, a
\* later push_value or push_data leaves the outcome, the recorded field name
\* and the recorded raw value as they are; of the context only the attempt
\* counter changes, by one.
C34_StoredOutcomeIsFrozen ==
    [][(phase = "Accumulating" /\ ctxt.value # None /\ log' # log)
        => /\ ctxt'.value = ctxt.value
           /\ ctxt'.field_name = ctxt.field_name
           /\ ctxt'.field_value = ctxt.field_value
           /\ ctxt'.opts = ctxt.opts
           /\ ctxt'.pushes = ctxt.pushes + 1]_vars

\* A stored failure from the first attempt, a value "nope" under the name a,
\* has come through two later attempts with another name and another value.
C34_Witness ==
    /\ phase = "Accumulating" /\ Len(log) = 3
    /\ ctxt.pushes = 3
    /\ ctxt.value # None /\ ~Unwrap(ctxt.value).ok
    /\ log[1] = ValueField(NameView(<<"a">>), T_nope)
    /\ log[2] = ValueField(NameView(<<"b">>), T_YES)
    /\ log[3].shape = "data"
    /\ ctxt.field_name = Some(log[1].name)
    /\ ctxt.field_value = Some(T_nope)

\* The attempt whose outcome the context stored: the first one that was not
\* swallowed. Zero when every attempt was swallowed or there was none.
Swallowed(i) ==
    LET o == Outcome(ty, log[i])
    IN  ~ctxt.opts.strict /\ ~o.ok /\ IsUnexpected(o.errs)

Producer ==
    IF \A i \in 1..Len(log) : Swallowed(i) THEN 0
    ELSE CHOOSE i \in 1..Len(log) :
            ~Swallowed(i) /\ \A j \in 1..(i - 1) : Swallowed(j)

\* C38: a raw value on a failure returned by leaf finalize is the text of
\* the value-field attempt that produced the failure; a Missing, and the
\* failure of a data-field attempt, carry no raw value of another attempt.
C38_RawValueFromProducingAttempt ==
    (Finalized /\ ~Returned.ok)
        => \A k \in 1..Len(Returned.errs) :
              Returned.errs[k].value # None
                => /\ Producer # 0
                   /\ log[Producer].shape = "value"
                   /\ Returned.errs[k].value = Some(log[Producer].value)

\* The events so far whose leading key names field i.
EventsFor(i) == SelectSeq(flog, LAMBDA f : KeyLossy(f.name) = decl[i].name)

RECURSIVE PushAll(_, _, _, _)
\* The leaf context c after the shifted events es[k..] are pushed to it.
PushAll(T, c, es, k) ==
    IF k > Len(es) THEN c ELSE PushAll(T, PushField(T, c, Shift(es[k])), es, k + 1)

\* C35: the child context of a declared field is absent until an event's
\* leading key matches the field; from then on it is the one context that
\* the child's init made with the composite's own options and that every
\* matching event so far was pushed to: never made again, never reset.
C35_ChildContextCreatedOnce ==
    fphase # "Idle"
        => \A i \in 1..Len(decl) :
              LET es == EventsFor(i)
              IN  /\ es = <<>> => form.children[i] = None
                  /\ es # <<>>
                        => /\ form.children[i] # None
                           /\ Unwrap(form.children[i]).opts = form.opts
                           /\ Unwrap(form.children[i]).pushes = Len(es)
                           /\ Unwrap(form.children[i])
                                = PushAll(decl[i].ty, LeafInit(form.opts), es, 1)

\* Under strict options the field name has had three events, its context
\* counts all three and still holds the outcome of the first; age has had
\* none.
C35_Witness ==
    /\ fphase = "Accumulating" /\ decl = Person /\ form.opts.strict
    /\ Len(EventsFor(1)) = 3
    /\ Unwrap(form.children[1]).pushes = 3
    /\ Unwrap(form.children[1]).opts.strict
    /\ Unwrap(form.children[1]).field_value = Some(flog[1].value)
    /\ flog[2].shape = "data" /\ flog[3].value # flog[1].value
    /\ form.children[2] = None

\* The declared fields an event's leading key names.
Targets(f) == {i \in 1..Len(decl) : decl[i].name = KeyLossy(f.name)}

\* The context of child i as a push finds it.
ChildBefore(i) ==
    IF form.children[i] = None THEN LeafInit(form.opts) ELSE Unwrap(form.children[i])

Untouched(i) == EventsFor(i) = <<>>

\* The errors of the returned failure whose name ends in the name of field i.
ErrorsOf(i) ==
    SelectSeq(FormReturned.errs,
              LAMBDA e : /\ e.name # None
                         /\ Unwrap(e.name)[Len(Unwrap(e.name))] = decl[i].name)

\* C37: at composite finalize a declared field that received no event has
\* no context, before and after; it is bound to the default of its type if
\* there is one, and is otherwise reported as exactly one error, Missing,
\* under the field's name, also when the field is a composite with several
\* required fields of its own.
C37_UntouchedFieldDefaultOrMissing ==
    FormFinalized
        => \A i \in 1..Len(decl) :
              Untouched(i)
                => /\ form.children[i] = None
                   /\ IF decl[i].ty = "bool"
                      THEN /\ ErrorsOf(i) = <<>>
                           /\ FormReturned.ok => Unwrap(FormReturned.val)[i] = FALSE
                      ELSE /\ ~FormReturned.ok
                           /\ Len(ErrorsOf(i)) = 1
                           /\ ErrorsOf(i)[1].kind = Missing
                           /\ ErrorsOf(i)[1].value = None
                           /\ flog # <<>>
                                => ErrorsOf(i)[1].name = Some(base \o <<decl[i].name>>)

\* A household whose composite field head had no event, under strict
\* options with one unknown event: one Missing for head next to the
\* Unexpected of the unknown event.
C37_Witness ==
    /\ FormFinalized /\ decl = Household /\ base = <<"cat", "dog">>
    /\ form.opts.strict /\ Len(flog) = 1 /\ KeyLossy(flog[1].name) = "x"
    /\ Kinds(FormReturned.errs) = <<Unexpected, Missing>>
    /\ FormReturned.errs[2].name = Some(<<"cat", "dog", "head">>)

----------------------------------------------------------------------------
(* The request-local cache: Request::local_cache, local_cache_async *)

MaxCalls == 3

CacheValues == {"hello", "goodbye", "again"}

\* Container::set that replaces a value already stored.
ContainerSet_Overwrite(c, v) == Some(v)

\* state.cache.set(v) for one type: stores v when nothing is stored for the
\* type, and leaves the stored value otherwise.
ContainerSet(c, v) == IF c = None THEN Some(v) ELSE c

\* state.cache.try_get()
ContainerTryGet(c) == c

\* state.cache.get(), called only after set
ContainerGet(c) == Unwrap(c)

\* A call of local_cache or local_cache_async: the value its closure or
\* future yields, where the call stands, and what it returned.
CacheCall(kind, val, pc, ret) == [kind |-> kind, val |-> val, pc |-> pc, ret |-> ret]

InitCache ==
    /\ lcache = None
    /\ lcalls = <<>>
    /\ IdleHeaders
    /\ ty = "bool"
    /\ IdleLeaf
    /\ IdleForm
    /\ IdleQuery
    /\ IdleTemp

\* Request::local_cache(f): try_get, and when nothing is stored set(f()) and
\* get. The closure runs to its end inside the call.
LocalCache ==
    /\ Len(lcalls) < MaxCalls
    /\ \E v \in CacheValues :
        LET found  == ContainerTryGet(lcache)
            stored == IF found = None THEN ContainerSet(lcache, v) ELSE lcache
            ret    == IF found = None THEN ContainerGet(stored) ELSE Unwrap(found)
        IN  /\ lcache' = stored
            /\ lcalls' = Append(lcalls, CacheCall("sync", v, "done", Some(ret)))
    /\ UNCHANGED <<headers, ctstate, hlog, leafVars, formVars, queryVars, tempVars>>

\* Request::local_cache_async(fut) up to its first suspension: try_get, and
\* when nothing is stored the call awaits the future.
LocalCacheAsyncPoll ==
    /\ Len(lcalls) < MaxCalls
    /\ \E v \in CacheValues :
        LET found == ContainerTryGet(lcache)
        IN  lcalls' = Append(lcalls,
                IF found = None THEN CacheCall("async", v, "awaiting", None)
                ELSE CacheCall("async", v, "done", Some(Unwrap(found))))
    /\ UNCHANGED <<lcache, headers, ctstate, hlog, leafVars, formVars, queryVars, tempVars>>

\* local_cache_async after the future is ready: set(value), then get.
LocalCacheAsyncReady ==
    /\ \E i \in 1..Len(lcalls) :
        /\ lcalls[i].pc = "awaiting"
        /\ LET stored == ContainerSet(lcache, lcalls[i].val)
           IN  /\ lcache' = stored
               /\ lcalls' = [lcalls EXCEPT ![i].pc = "done",
                                           ![i].ret = Some(ContainerGet(stored))]
    /\ UNCHANGED <<headers, ctstate, hlog, leafVars, formVars, queryVars, tempVars>>

NextCache == LocalCache \/ LocalCacheAsyncPoll \/ LocalCacheAsyncReady

SpecCache == InitCache /\ [][NextCache]_vars

\* The calls that have returned.
DoneCalls(cs) == {i \in 1..Len(cs) : cs[i].pc = "done"}

\* C32: for one request and one type the first value stored in the
\* request-local cache wins: once a value is stored no step replaces it, and
\* every call that has returned, local_cache or local_cache_async, returned
\* the stored value, also when several local_cache_async calls found the
\* cache empty before any of them stored.
C32_FirstStoredWins ==
    [][/\ lcache # None => lcache' = lcache
       /\ DoneCalls(lcalls') # {} => lcache' # None
       /\ \A i \in DoneCalls(lcalls') : lcalls'[i].ret = lcache'
       /\ \A i \in DoneCalls(lcalls) : lcalls'[i].ret = lcalls[i].ret]_vars

\* Two local_cache_async calls both found the cache empty; the second one's
\* future was ready first; both returned its value, and so did a later
\* local_cache.
C32_Witness ==
    /\ Len(lcalls) = 3
    /\ lcalls[1] = CacheCall("async", "hello", "done", Some("goodbye"))
    /\ lcalls[2] = CacheCall("async", "goodbye", "done", Some("goodbye"))
    /\ lcalls[3] = CacheCall("sync", "again", "done", Some("goodbye"))
    /\ lcache = Some("goodbye")

----------------------------------------------------------------------------
(* The headers of a request and the cached Content-Type *)

MaxHeaderOps == 4

N_ContentType == <<"C","o","n","t","e","n","t","-","T","y","p","e">>
N_content_type == <<"c","o","n","t","e","n","t","-","t","y","p","e">>
N_XId == <<"X","-","I","d">>

HeaderNames == {N_ContentType, N_content_type, N_XId}

HeaderValues == {"text/html", "IMAGE/PNG", "image/png", "garbage"}

\* Header { name, value }
Header(name, value) == [name |-> name, value |-> value]

\* A media type: top level and subtype, compared without case.
MediaType(top, sub) == [top |-> top, sub |-> sub]

\* <ContentType as FromStr>::from_str(v).ok()
ParseContentType(v) ==
    CASE v = "text/html" -> Some(MediaType("text", "html"))
      [] v \in {"image/png", "IMAGE/PNG"} -> Some(MediaType("image", "png"))
      [] OTHER -> None

\* The position of the entry of a name in the header map, 0 when it has none;
\* the map is keyed by the uncased name.
HeaderIndex(h, name) ==
    LET key == AsUncased(name)
    IN  IF \E i \in 1..Len(h) : h[i].name = key
        THEN CHOOSE i \in 1..Len(h) : h[i].name = key
        ELSE 0

\* HeaderMap::get_one: the first value of the header, if any
GetOne(h, name) ==
    LET i == HeaderIndex(h, name)
    IN  IF i = 0 THEN None ELSE Some(h[i].values[1])

\* HeaderMap::add: the value is appended to the values of the header
HeaderAdd(h, header) ==
    LET i == HeaderIndex(h, header.name)
    IN  IF i = 0
        THEN Append(h, [name |-> AsUncased(header.name), values |-> <<header.value>>])
        ELSE [h EXCEPT ![i].values = Append(@, header.value)]

\* HeaderMap::replace: the value becomes the only value of the header
HeaderReplace(h, header) ==
    LET i == HeaderIndex(h, header.name)
    IN  IF i = 0
        THEN Append(h, [name |-> AsUncased(header.name), values |-> <<header.value>>])
        ELSE [h EXCEPT ![i].values = <<header.value>>]

\* Request::content_type: state.content_type.get_or_set(parse of the first
\* Content-Type value); st is the storage (None when unset), ret what the
\* call returns.
ContentTypeCall(st, h) ==
    IF st # None THEN [st |-> st, ret |-> Unwrap(st)]
    ELSE LET v   == GetOne(h, N_ContentType)
             ct  == IF v = None THEN None ELSE ParseContentType(Unwrap(v))
         IN  [st |-> Some(ct), ret |-> ct]

\* bust_header_cache that resets the storage only when it holds no content type.
BustHeaderCache_IgnoreReplace(st, h, name, replace) ==
    IF AsUncased(name) = N_content_type
    THEN LET r == ContentTypeCall(st, h)
         IN  IF r.ret = None THEN None ELSE r.st
    ELSE st

\* Request::bust_header_cache, for the Content-Type storage: the call of
\* self.content_type() in the condition fills the storage; it is reset when
\* that call found no content type or the header is being replaced.
BustHeaderCache(st, h, name, replace) ==
    IF AsUncased(name) = N_content_type
    THEN LET r == ContentTypeCall(st, h)
         IN  IF r.ret = None \/ replace THEN None ELSE r.st
    ELSE st

\* A header call and what it returned.
HeaderOp(op, header, ret) == [op |-> op, header |-> header, ret |-> ret]

InitHeaders ==
    /\ headers = <<>>
    /\ ctstate = None
    /\ hlog = [n |-> 0, last |-> None, rets |-> <<>>]
    /\ ty = "bool"
    /\ IdleCache
    /\ IdleLeaf
    /\ IdleForm
    /\ IdleQuery
    /\ IdleTemp

\* Request::add_header
AddHeader ==
    /\ hlog.n < MaxHeaderOps
    /\ \E name \in HeaderNames, value \in HeaderValues :
        LET header == Header(name, value)
        IN  /\ ctstate' = BustHeaderCache(ctstate, headers, header.name, FALSE)
            /\ headers' = HeaderAdd(headers, header)
            /\ hlog' = [hlog EXCEPT !.n = @ + 1,
                            !.last = Some(HeaderOp("add_header", Some(header), None))]
    /\ UNCHANGED <<lcache, lcalls, leafVars, formVars, queryVars, tempVars>>

\* Request::replace_header
ReplaceHeader ==
    /\ hlog.n < MaxHeaderOps
    /\ \E name \in HeaderNames, value \in HeaderValues :
        LET header == Header(name, value)
        IN  /\ ctstate' = BustHeaderCache(ctstate, headers, header.name, TRUE)
            /\ headers' = HeaderReplace(headers, header)
            /\ hlog' = [hlog EXCEPT !.n = @ + 1,
                            !.last = Some(HeaderOp("replace_header", Some(header), None))]
    /\ UNCHANGED <<lcache, lcalls, leafVars, formVars, queryVars, tempVars>>

\* Request::content_type
ContentTypeGet ==
    /\ hlog.n < MaxHeaderOps
    /\ LET r == ContentTypeCall(ctstate, headers)
       IN  /\ ctstate' = r.st
           /\ hlog' = [hlog EXCEPT !.n = @ + 1,
                           !.last = Some(HeaderOp("content_type", None, r.ret)),
                           !.rets = Append(@, r.ret)]
    /\ UNCHANGED <<headers, lcache, lcalls, leafVars, formVars, queryVars, tempVars>>

NextHeaders == AddHeader \/ ReplaceHeader \/ ContentTypeGet

SpecHeaders == InitHeaders /\ [][NextHeaders]_vars

\* The values of the Content-Type header now in the map, whatever the
\* spelling of its name.
ContentTypeValues ==
    IF \E i \in 1..Len(headers) : headers[i].name = N_content_type
    THEN headers[CHOOSE i \in 1..Len(headers) :
                    headers[i].name = N_content_type].values
    ELSE <<>>

\* The parse of the first Content-Type value now in the map.
CurrentContentType ==
    IF ContentTypeValues = <<>> THEN None
    ELSE ParseContentType(ContentTypeValues[1])

\* C33: after any sequence of add_header, replace_header and content_type
\* calls, content_type() returns the parse of the first Content-Type header
\* now in the map, None when there is none or it does not parse; a stored
\* value is never stale, in particular after replace_header of an existing
\* Content-Type.
C33_ContentTypeNeverStale ==
    hlog # <<>>
        => /\ ctstate # None => Unwrap(ctstate) = CurrentContentType
           /\ ContentTypeCall(ctstate, headers).ret = CurrentContentType
           /\ (hlog.last # None /\ Unwrap(hlog.last).op = "content_type")
                => Unwrap(hlog.last).ret = CurrentContentType

\* text/html was added and read, then replaced by image/png under another
\* spelling of the name, and read again: the call returned image/png.
C33_Witness ==
    /\ hlog # <<>> /\ hlog.n = 4
    /\ headers = <<[name |-> N_content_type, values |-> <<"image/png">>]>>
    /\ Unwrap(hlog.last) = HeaderOp("content_type", None, Some(MediaType("image", "png")))
    /\ ctstate = Some(Some(MediaType("image", "png")))
    /\ hlog.rets = <<Some(MediaType("text", "html")), Some(MediaType("image", "png"))>>

====
